---- MODULE Spec2Model ----
(***************************************************************************)
(* Decoder plugin registry of MPD (src/decoder/DecoderList.cxx): the       *)
(* static plugin list, the enabled flags, the codec priority table built   *)
(* from the "decoder" configuration blocks, and the lookups by name and by *)
(* suffix.                                                                 *)
(*                                                                         *)
(* C strings are sequences of one-character strings, so that lower-casing  *)
(* and tokenising are computed character by character as the code does.    *)
(* The registry is a build with ENABLE_LAZYUSF, ENABLE_LAZYGSF and         *)
(* ENABLE_UPSE; the other entries of decoder_plugins[] are left out.  The  *)
(* registry code is generic over DecoderPlugin, so Init of every plugin    *)
(* may have each outcome decoder_plugin_init_all distinguishes.            *)
(***************************************************************************)
EXTENDS Integers, Sequences, FiniteSets, TLC

(***************************************************************************)
(* Bounds                                                                  *)
(***************************************************************************)
\* where calls are counted (SpecCount): at most this many
\* decoder_plugin_init_all calls
MaxInit == 2
\* and at most this many decoder_plugin_deinit_all calls
MaxDeinit == 2
\* where the codec list parser is applied to every string over an alphabet
\* (SpecParse): the strings of at most this length
MaxLen == 4

(***************************************************************************)
(* Characters and strings                                                  *)
(***************************************************************************)
UpperASCII == <<"A","B","C","D","E","F","G","H","I","J","K","L","M",
                "N","O","P","Q","R","S","T","U","V","W","X","Y","Z">>
LowerASCII == <<"a","b","c","d","e","f","g","h","i","j","k","l","m",
                "n","o","p","q","r","s","t","u","v","w","x","y","z">>

\* a null "const char *": no string has an element longer than one character
nullptr == <<"nullptr">>

ToLowerASCII(ch) ==
    IF \E k \in 1..Len(UpperASCII) : UpperASCII[k] = ch
    THEN LowerASCII[CHOOSE k \in 1..Len(UpperASCII) : UpperASCII[k] = ch]
    ELSE ch

IsWhitespaceFast(ch) == ch \in {" ", "\t", "\n", "\r"}

\* the loop "for (ch : s) key.push_back(ToLowerASCII(ch))"
LowerCopy(s) == [j \in 1..Len(s) |-> ToLowerASCII(s[j])]

IsDelimiter(ch) == ch = "," \/ IsWhitespaceFast(ch)

RECURSIVE SkipDelimiters(_, _)
SkipDelimiters(s, i) ==
    IF i <= Len(s) /\ IsDelimiter(s[i]) THEN SkipDelimiters(s, i + 1) ELSE i

RECURSIVE SkipToken(_, _)
SkipToken(s, i) ==
    IF i <= Len(s) /\ ~IsDelimiter(s[i]) THEN SkipToken(s, i + 1) ELSE i

\* variant: a token already in the result is not appended again
RECURSIVE ParseCodecLoop_Dedupe(_, _, _)
ParseCodecLoop_Dedupe(s, i, result) ==
    IF i > Len(s) THEN result
    ELSE LET start == SkipDelimiters(s, i) IN
         IF start > Len(s) THEN result
         ELSE LET end == SkipToken(s, start)
                  token == [j \in 1..(end - start) |->
                               ToLowerASCII(s[start + j - 1])]
              IN  ParseCodecLoop_Dedupe(s, end,
                                 IF /\ end > start
                                    /\ token # <<>>
                                    /\ \A k \in 1..Len(result) : result[k] # token
                                 THEN Append(result, token)
                                 ELSE result)

\* variant: the token keeps the case of the input
RECURSIVE ParseCodecLoop_KeepCase(_, _, _)
ParseCodecLoop_KeepCase(s, i, result) ==
    IF i > Len(s) THEN result
    ELSE LET start == SkipDelimiters(s, i) IN
         IF start > Len(s) THEN result
         ELSE LET end == SkipToken(s, start)
                  token == [j \in 1..(end - start) |-> s[start + j - 1]]
              IN  ParseCodecLoop_KeepCase(s, end,
                                 IF end > start /\ token # <<>>
                                 THEN Append(result, token)
                                 ELSE result)

\* the outer while loop of ParseCodecList, entered with index i (1-based)
RECURSIVE ParseCodecLoop(_, _, _)
ParseCodecLoop(s, i, result) ==
    IF i > Len(s) THEN result
    ELSE LET start == SkipDelimiters(s, i) IN
         IF start > Len(s) THEN result
         ELSE LET end == SkipToken(s, start)
                  token == [j \in 1..(end - start) |->
                               ToLowerASCII(s[start + j - 1])]
              IN  ParseCodecLoop(s, end,
                                 IF end > start /\ token # <<>>
                                 THEN Append(result, token)
                                 ELSE result)

ParseCodecList(value) ==
    IF value = nullptr THEN <<>> ELSE ParseCodecLoop(value, 1, <<>>)

(***************************************************************************)
(* The static registry                                                     *)
(***************************************************************************)
usf     == <<"u","s","f">>
miniusf == <<"m","i","n","i","u","s","f">>
gsf     == <<"g","s","f">>
minigsf == <<"m","i","n","i","g","s","f">>
psf     == <<"p","s","f">>
minipsf == <<"m","i","n","i","p","s","f">>

decoder_plugins ==
    << [name |-> "lazyusf", suffixes |-> <<miniusf>>],
       [name |-> "lazygsf", suffixes |-> <<gsf, minigsf>>],
       [name |-> "upse",    suffixes |-> <<psf, minipsf>>] >>

num_decoder_plugins == Len(decoder_plugins)

PluginIds == 1..num_decoder_plugins


(***************************************************************************)
(* Configuration                                                           *)
(*                                                                         *)
(* A ConfigBlock is a record of the block parameters it sets; ConfigData   *)
(* is the sequence of its "decoder" blocks in file order.                  *)
(***************************************************************************)
HasBlockValue(block, name) == name \in DOMAIN block

GetBlockValue(block, name, default) ==
    IF HasBlockValue(block, name) THEN block[name] ELSE default

\* index of the first block whose "plugin" value is name; 0 is nullptr
FindBlock(cfg, name) ==
    IF \E k \in 1..Len(cfg) : HasBlockValue(cfg[k], "plugin") /\ cfg[k].plugin = name
    THEN CHOOSE k \in 1..Len(cfg) :
            /\ HasBlockValue(cfg[k], "plugin") /\ cfg[k].plugin = name
            /\ \A m \in 1..(k - 1) :
                  ~(HasBlockValue(cfg[m], "plugin") /\ cfg[m].plugin = name)
    ELSE 0

\* "gsf"
CodecsGsf == gsf
\* "gsf, GSF ,,psf"
CodecsGsfPsf == <<"g","s","f",","," ","G","S","F"," ",",",",","p","s","f">>
\* "psf"
CodecsPsf == psf
\* "PSF psf"
CodecsPsfTwice == <<"P","S","F"," ","p","s","f">>
\* " , "
CodecsBlank == <<" ", ",", " ">>

ConfigEmpty == <<>>

ConfigOverride ==
    << [plugin |-> "upse", codecs |-> CodecsGsf],
       [plugin |-> "lazyusf", codecs |-> CodecsGsfPsf],
       [plugin |-> "upse", codecs |-> CodecsGsf] >>

ConfigDisabled ==
    << [plugin |-> "upse", enabled |-> FALSE, codecs |-> CodecsGsf] >>

ConfigUnknown ==
    << [plugin |-> "lazygsf", codecs |-> CodecsPsf],
       [plugin |-> "nosuch", codecs |-> CodecsPsf],
       [codecs |-> CodecsPsf],
       [plugin |-> "lazygsf", enabled |-> TRUE, codecs |-> CodecsPsfTwice] >>

ConfigBlank ==
    << [plugin |-> "lazyusf", enabled |-> FALSE],
       [plugin |-> "lazygsf", codecs |-> CodecsBlank] >>

Configs == {ConfigEmpty, ConfigOverride, ConfigDisabled, ConfigUnknown,
            ConfigBlank}

\* the configurations of the counted calls: no block, a disabled plugin,
\* a disabled plugin next to a configured one
CountConfigs == {ConfigEmpty, ConfigDisabled, ConfigBlank}

\* suffixes and names the lookups are called with
Suffixes == {<<>>, gsf, <<"G","s","F">>, psf, usf}
Names == {"lazyusf", "upse", "Upse", "nosuch"}

\* "flac, FLAC ,,mp3"
CodecsFlac == <<"f","l","a","c",","," ","F","L","A","C"," ",",",",","m","p","3">>
flac == <<"f","l","a","c">>
mp3 == <<"m","p","3">>

\* the codecs values the parser is applied to: every string of at most
\* MaxLen characters over ParseAlphabet, and the longer examples
ParseAlphabet == {"a", "B", "3", ",", " ", "\t"}
StringsOver(n) == UNION {[1..m -> ParseAlphabet] : m \in 0..n}
ParseInputs == StringsOver(MaxLen) \cup {CodecsFlac, CodecsGsfPsf, CodecsPsfTwice}

\* the configurations with one block of lazyusf: its codecs value is one of
\* ParseInputs, or it has none (GetBlockValue then returns nullptr)
ParseConfigs ==
    {<< [plugin |-> "lazyusf", codecs |-> v] >> : v \in ParseInputs}
        \cup {<< [plugin |-> "lazyusf"] >>}

(***************************************************************************)
(* State                                                                   *)
(***************************************************************************)
VARIABLES
    decoder_plugins_enabled,   \* PluginIds -> BOOLEAN
    decoder_codec_priorities,  \* token -> sequence of plugin ids
    pc,                        \* "idle", or "init" inside decoder_plugin_init_all
    config,                    \* argument of the current / last init call
    i,                         \* loop index of decoder_plugin_init_all
    calls,                     \* per plugin: what the current / last init call did
    error,                     \* plugin named by the propagated error, "" if none
    used,                      \* blocks of config marked by SetUsed
    log,                       \* log entries of the current / last init call
    built,                     \* config and flags seen by the last table build,
                               \* and the table that build replaced
    finished,                  \* Finish calls of the last deinit, <<>> after an init
    nInitTrue,                 \* counted: per plugin, Init calls that returned true
    nFinish,                   \* counted: per plugin, Finish calls
    ninit,                     \* counted: decoder_plugin_init_all calls
    ndeinit,                   \* counted: decoder_plugin_deinit_all calls
    last,                      \* the last lifecycle call: "none", "init", "deinit"
    result,                    \* the last lookup and what it returned
    dplugin,                   \* the plugin whose Decode is running, "none" if none
    dpc,                       \* where that Decode is: "idle", "load", "loop",
                               \* "submitted" (SubmitAudio has returned), "returned"
    track,                     \* what the file holds: length_ms, fade_ms, version
    cmd,                       \* the local cmd of the decode function
    seek_ms,                   \* what client.GetSeekTime() gives for the last SEEK
    song_remaining,            \* local of gsf_file_decode / lazyusf_file_decode
    fade_remaining,            \* local of gsf_file_decode / lazyusf_file_decode
    frames_played,             \* local of upse_file_decode / aopsf_file_decode
    client,                    \* the calls this Decode made on its DecoderClient
    psx,                       \* the native resources of aopsf_file_decode
    exit,                      \* how the last Decode left, "" while it runs
    gsf_initialized,           \* LazygsfDecoderPlugin.cxx: static bool
    upse_initialized,          \* UpseDecoderPlugin.cxx: static bool
    nLibInit,                  \* per plugin: calls of gsf_init / upse_module_init
    nPluginInit,               \* per plugin: calls of its init hook
    rendered,                  \* the buffer last submitted: its frames and the
                               \* ApplyFade call made on it; the frames the
                               \* last seek skipped
    threads                    \* per decoder thread: the entry of Decode it is in

regvars == <<decoder_plugins_enabled, decoder_codec_priorities, pc, config, i,
             calls, error, used, log, built, finished, nInitTrue, nFinish, ninit,
             ndeinit, last, result>>

decvars == <<dplugin, dpc, track, cmd, seek_ms, song_remaining, fade_remaining,
             frames_played, client, psx, exit, gsf_initialized,
             upse_initialized, nLibInit, nPluginInit, rendered, threads>>

vars == <<regvars, decvars>>

NoResult == [op |-> "none"]

(***************************************************************************)
(* The decode functions of the plugins: constants, inputs and the          *)
(* arithmetic of their loops                                               *)
(***************************************************************************)
GSF_SAMPLE_RATE_DEFAULT == 44100
GSF_BUFFER_FRAMES == 2048
GSF_SEEK_CHUNK_FRAMES == 8192
LAZYUSF_BUFFER_FRAMES == 1024
LAZYUSF_SEEK_CHUNK_FRAMES == 8192
UPSE_SAMPLE_RATE == 44100
\* "render_rate" of lazyusf_file_decode: the rate Render reports for the file
LAZYUSF_RENDER_RATE == 32000
AOPSF_BUFFER_FRAMES == 1024
AOPSF_SEEK_CHUNK_FRAMES == 8192
PSF1_SAMPLE_RATE == 44100
PSF2_SAMPLE_RATE == 48000

\* SubmitAudio calls of one Decode that the model follows
MaxSubmit == 6

DecodePlugins == {"lazygsf", "lazyusf", "upse", "aopsf"}

\* enum class DecoderCommand, as far as SubmitAudio returns it
Commands == {"NONE", "SEEK", "STOP"}

\* the tags of the file: length and fade in milliseconds, 0 when absent
LengthsMs == {0, 30, 64, 100}
FadesMs == {0, 32, 60}

\* what psf_load reports for the file: 0 no PSF, 1 PSF, 2 PSF2, 3 neither
Versions == {0, 1, 2, 3}

\* the positions client.GetSeekTime() gives
SeekTimesMs == {0, 40, 200}

\* the frame counts upse_eventloop_render gives: 0 at the end of the stream
UpseRenderFrames == {0, 1024}

Tracks == [length_ms : LengthsMs, fade_ms : FadesMs, version : Versions]

NoTrack == [length_ms |-> 0, fade_ms |-> 0, version |-> 0]

MaxOf(a, b) == IF a >= b THEN a ELSE b

MinOf(a, b) == IF a <= b THEN a ELSE b

\* "ms * sample_rate / 1000" in int64_t, on values that are not negative
ToFrames(ms, sample_rate) == (ms * sample_rate) \div 1000

\* the sample rate the decode function of a plugin uses for a file
SampleRate(plugin, t) ==
    CASE plugin = "lazygsf" -> GSF_SAMPLE_RATE_DEFAULT
      [] plugin = "lazyusf" -> LAZYUSF_RENDER_RATE
      [] plugin = "upse"    -> UPSE_SAMPLE_RATE
      [] plugin = "aopsf"   -> IF t.version = 2 THEN PSF2_SAMPLE_RATE
                                                ELSE PSF1_SAMPLE_RATE

\* "const bool has_length": lazygsf and lazyusf test length_ms, upse and
\* aopsf the duration their tags give
HasLength(t) == t.length_ms > 0

\* the duration of a PSF track is its length plus its fade, and 0 when the
\* tags give no length
GetPsfDurationMS(t) ==
    IF t.length_ms > 0 THEN t.length_ms + t.fade_ms ELSE 0

\* "const int64_t length_frames": aopsf counts the fade into it
LengthFrames(plugin, t) ==
    IF ~HasLength(t) THEN 0
    ELSE IF plugin = "aopsf"
         THEN ToFrames(GetPsfDurationMS(t), SampleRate(plugin, t))
         ELSE ToFrames(t.length_ms, SampleRate(plugin, t))

\* "const int64_t fade_total"
FadeTotal(plugin, t) == ToFrames(t.fade_ms, SampleRate(plugin, t))

\* variant: the fade counter goes down by the whole buffer
CountersAfterRender_WholeBuffer(B, has_length, song, fade) ==
    IF ~has_length
    THEN [song |-> song, fade |-> fade]
    ELSE LET remaining_before == song
             song2 == IF song > 0 THEN song - B ELSE song
         IN  IF remaining_before <= B
             THEN [song |-> song2, fade |-> IF fade - B < 0 THEN 0 ELSE fade - B]
             ELSE [song |-> song2, fade |-> fade]

\* the counters of lazygsf / lazyusf after one rendered buffer of B frames
CountersAfterRender(B, has_length, song, fade) ==
    IF ~has_length
    THEN [song |-> song, fade |-> fade]
    ELSE LET remaining_before == song
             song2 == IF song > 0 THEN song - B ELSE song
         IN  IF remaining_before <= B
             THEN LET fade_start == MaxOf(remaining_before, 0)
                      fade2 == fade - (B - fade_start)
                  IN  [song |-> song2, fade |-> IF fade2 < 0 THEN 0 ELSE fade2]
             ELSE [song |-> song2, fade |-> fade]

\* "to_skip", the frames SkipFrames is asked to render and drop
ToSkip(has_length, length_frames, seek_frames) ==
    IF has_length
    THEN MaxOf(length_frames - (length_frames - seek_frames), 0)
    ELSE seek_frames

\* variant: a seek into the fade leaves the fade counter at fade_total
CountersAfterSeek_FullFade(has_length, length_frames, fade_total, seek_frames) ==
    IF ~has_length
    THEN [song |-> length_frames, fade |-> fade_total]
    ELSE LET target_remaining == length_frames - seek_frames
             to_skip == ToSkip(has_length, length_frames, seek_frames)
             song2 == IF length_frames > 0
                      THEN length_frames - MinOf(to_skip, length_frames)
                      ELSE length_frames
         IN  IF target_remaining < 0
             THEN [song |-> 0, fade |-> fade_total]
             ELSE [song |-> song2, fade |-> fade_total]

\* the counters of lazygsf / lazyusf after a seek that succeeded
CountersAfterSeek(has_length, length_frames, fade_total, seek_frames) ==
    IF ~has_length
    THEN [song |-> length_frames, fade |-> fade_total]
    ELSE LET target_remaining == length_frames - seek_frames
             to_skip == ToSkip(has_length, length_frames, seek_frames)
             song2 == IF length_frames > 0
                      THEN length_frames - MinOf(to_skip, length_frames)
                      ELSE length_frames
         IN  IF target_remaining < 0
             THEN [song |-> 0, fade |-> MaxOf(fade_total + target_remaining, 0)]
             ELSE [song |-> song2, fade |-> fade_total]

\* SkipFrames when no render call fails: the frames it has rendered and
\* dropped, chunk by chunk
RECURSIVE SkipFrames(_, _)
SkipFrames(frames, chunk) ==
    IF frames > 0
    THEN MinOf(frames, chunk) + SkipFrames(frames - MinOf(frames, chunk), chunk)
    ELSE 0

\* SkipFrames: the render calls it makes for this many frames; it fails when
\* one of them fails
SkipFramesCalls(frames, chunk) ==
    IF frames <= 0 THEN 0 ELSE (frames + chunk - 1) \div chunk

INT16_MAX == 32767

INT16_MIN == -32768

\* the sample values the rendered buffer is taken to hold
Samples == {-3, 32767}

\* "a / b" of C++ on int64_t, for b > 0: the quotient is truncated
TruncDiv(a, b) == IF a >= 0 THEN a \div b ELSE -((-a) \div b)

\* FadeSample of LazygsfDecoderPlugin.cxx
FadeSample(sample, numerator, denominator) ==
    IF sample = 0 THEN 0
    ELSE IF denominator <= 0 \/ numerator <= 0 THEN 0
    ELSE LET scaled == TruncDiv(sample * numerator, denominator)
         IN  IF scaled > INT16_MAX THEN INT16_MAX
             ELSE IF scaled < INT16_MIN THEN INT16_MIN
             ELSE scaled

\* FadeUSFSample of LazyusfDecoderPlugin.cxx
FadeUSFSample(sample, numerator, denominator) ==
    IF sample = 0 THEN 0
    ELSE IF denominator <= 0 \/ numerator <= 0 THEN 0
    ELSE LET scaled == TruncDiv(sample * numerator, denominator)
         IN  IF scaled > INT16_MAX THEN INT16_MAX
             ELSE IF scaled < INT16_MIN THEN INT16_MIN
             ELSE scaled

\* ApplyFade of LazygsfDecoderPlugin.cxx: what it leaves in frame f of the
\* buffer for a sample, called with offset_frames, fade_remaining, fade_total
GsfApplyFade(sample, f, offset_frames, fade_remaining0, fade_total) ==
    IF fade_total <= 0 THEN sample
    ELSE LET fade_remaining1 == IF fade_remaining0 < 0 THEN 0 ELSE fade_remaining0
             pos == offset_frames + f
             numerator == fade_remaining1 - pos
         IN  FadeSample(sample, numerator, fade_total)

\* variant: every frame of the buffer is scaled, as ApplyFade of lazygsf does
UsfApplyFade_FromFrame0(sample, f, frames, start_frame, fade_remaining0, fade_total) ==
    IF fade_total <= 0 THEN sample
    ELSE FadeUSFSample(sample, fade_remaining0 - (start_frame + f), fade_total)

\* ApplyFade of LazyusfDecoderPlugin.cxx: what it leaves in frame f of the
\* buffer of this many frames for a sample
UsfApplyFade(sample, f, frames, start_frame, fade_remaining0, fade_total) ==
    IF start_frame >= frames THEN sample
    ELSE IF f < start_frame THEN sample
    ELSE LET offset == f - start_frame
             remaining == fade_remaining0 - offset
         IN  IF fade_total <= 0 \/ remaining <= 0 THEN 0
             ELSE FadeUSFSample(sample, remaining, fade_total)

(***************************************************************************)
(* DecoderClient, as Decode sees it: what was called, in which order        *)
(***************************************************************************)
NoClient ==
    [nReady |-> 0,            \* Ready calls
     nSubmit |-> 0,           \* SubmitAudio calls
     submitBeforeReady |-> FALSE,
     pending |-> FALSE,       \* SubmitAudio returned SEEK, no CommandFinished yet
     lost |-> FALSE,          \* SubmitAudio was called while a SEEK was pending
     nFinished |-> 0,         \* CommandFinished calls since the last SubmitAudio
     stop |-> FALSE,          \* SubmitAudio has returned STOP
     sought |-> FALSE,        \* SubmitAudio has returned SEEK
     submitAfterStop |-> FALSE]

Ready(c) == [c EXCEPT !.nReady = @ + 1]

SubmitAudio(c, command) ==
    [c EXCEPT !.nSubmit = @ + 1,
              !.submitBeforeReady = @ \/ c.nReady = 0,
              !.lost = @ \/ c.pending,
              !.pending = (command = "SEEK"),
              !.nFinished = 0,
              !.submitAfterStop = @ \/ c.stop,
              !.stop = @ \/ command = "STOP",
              !.sought = @ \/ command = "SEEK"]

CommandFinished(c) == [c EXCEPT !.pending = FALSE, !.nFinished = @ + 1]

\* the native resources of aopsf_file_decode
NoPsx ==
    [allocated |-> FALSE,     \* std::malloc gave the state buffer
     started |-> FALSE,       \* the local "started"
     psf2fs |-> FALSE,        \* the local psf2fs is not nullptr
     nFree |-> 0,             \* std::free calls on it
     nFsCreate |-> 0,         \* psf2fs_create calls that gave a filesystem
     nFsDelete |-> 0,         \* psf2fs_delete calls
     nStart |-> 0,            \* psf_start / psf2_start calls that succeeded
     nStop |-> 0]             \* psf_stop / psf2_stop calls

\* decoder threads that enter Decode at the same time
MaxThreads == 3

Threads == 1..MaxThreads

OncePlugins == {"lazygsf", "upse"}

NoThread == [plugin |-> "none", at |-> "idle", seen |-> FALSE]

\* no buffer was rendered yet
NoRendered ==
    [frames |-> 0,            \* frames in the buffer
     faded |-> FALSE,         \* ApplyFade was called on it, with
     fade_start |-> 0,        \*   this start frame,
     fade_remaining |-> 0,    \*   this fade_remaining
     skipped |-> 0]           \* frames SkipFrames rendered for the last seek

\* no Decode is running
DecodeInit ==
    /\ dplugin = "none"
    /\ dpc = "idle"
    /\ track = NoTrack
    /\ cmd = "NONE"
    /\ seek_ms = 0
    /\ song_remaining = 0
    /\ fade_remaining = 0
    /\ frames_played = 0
    /\ client = NoClient
    /\ psx = NoPsx
    /\ exit = ""
    /\ gsf_initialized = FALSE
    /\ upse_initialized = FALSE
    /\ nLibInit = [p \in OncePlugins |-> 0]
    /\ nPluginInit = [p \in OncePlugins |-> 0]
    /\ rendered = NoRendered
    /\ threads = [t \in Threads |-> NoThread]

(***************************************************************************)
(* Registry iteration                                                      *)
(***************************************************************************)
\* GetEnabledDecoderPlugins(): the enabled plugins in registry order
RECURSIVE EnabledFrom(_, _)
EnabledFrom(enabled, k) ==
    IF k > num_decoder_plugins THEN <<>>
    ELSE IF enabled[k] THEN <<k>> \o EnabledFrom(enabled, k + 1)
    ELSE EnabledFrom(enabled, k + 1)

GetEnabledDecoderPlugins(enabled) == EnabledFrom(enabled, 1)

\* std::find(list.begin(), list.end(), p) != list.end()
Contains(list, p) == \E k \in 1..Len(list) : list[k] = p

\* decoder_plugins_find(): first enabled plugin accepted by the predicate
RECURSIVE FindFirstNamed(_, _, _)
FindFirstNamed(list, k, name) ==
    IF k > Len(list) THEN 0
    ELSE IF decoder_plugins[list[k]].name = name THEN list[k]
    ELSE FindFirstNamed(list, k + 1, name)

\* variant: the scan goes over decoder_plugins[], enabled or not
decoder_plugin_from_name_All(name, enabled) ==
    FindFirstNamed([p \in PluginIds |-> p], 1, name)

decoder_plugin_from_name(name, enabled) ==
    FindFirstNamed(GetEnabledDecoderPlugins(enabled), 1, name)

(***************************************************************************)
(* The codec priority table                                                *)
(***************************************************************************)
EmptyTable == [t \in {} |-> <<>>]

\* variant: push_back without the std::find() test
AddCodec_NoFind(table, codec, plugin) ==
    LET list == IF codec \in DOMAIN table THEN table[codec] ELSE <<>>
    IN  [t \in DOMAIN table \cup {codec} |->
            IF t = codec THEN Append(list, plugin) ELSE table[t]]

\* variant: a plugin declared again moves to the end of the list
AddCodec_MoveToEnd(table, codec, plugin) ==
    LET list == IF codec \in DOMAIN table THEN table[codec] ELSE <<>>
        Other(q) == q # plugin
        list2 == Append(SelectSeq(list, Other), plugin)
    IN  [t \in DOMAIN table \cup {codec} |-> IF t = codec THEN list2 ELSE table[t]]

\* "auto &list = decoder_codec_priorities[codec]; if (find == end) push_back"
AddCodec(table, codec, plugin) ==
    LET list == IF codec \in DOMAIN table THEN table[codec] ELSE <<>>
        list2 == IF Contains(list, plugin) THEN list ELSE Append(list, plugin)
    IN  [t \in DOMAIN table \cup {codec} |-> IF t = codec THEN list2 ELSE table[t]]

RECURSIVE AddCodecs(_, _, _, _)
AddCodecs(table, codecs, k, plugin) ==
    IF k > Len(codecs) THEN table
    ELSE AddCodecs(AddCodec(table, codecs[k], plugin), codecs, k + 1, plugin)

\* variant: an unresolved plugin name is passed over silently
RECURSIVE BuildFrom_NoWarning(_, _, _, _)
BuildFrom_NoWarning(cfg, k, st, enabled) ==
    IF k > Len(cfg) THEN st
    ELSE LET block == cfg[k] IN
         IF ~HasBlockValue(block, "plugin")
         THEN BuildFrom_NoWarning(cfg, k + 1, st, enabled)
         ELSE LET plugin == decoder_plugin_from_name(block.plugin, enabled) IN
              IF plugin = 0
              THEN BuildFrom_NoWarning(cfg, k + 1, st, enabled)
              ELSE LET codecs == ParseCodecList(GetBlockValue(block, "codecs", nullptr))
                   IN  BuildFrom_NoWarning(cfg, k + 1,
                                 [st EXCEPT !.table = AddCodecs(@, codecs, 1, plugin)],
                                 enabled)

\* the WithEach callback applied to block k and the following ones;
\* st is [table, log]
RECURSIVE BuildFrom(_, _, _, _)
BuildFrom(cfg, k, st, enabled) ==
    IF k > Len(cfg) THEN st
    ELSE LET block == cfg[k] IN
         IF ~HasBlockValue(block, "plugin") THEN BuildFrom(cfg, k + 1, st, enabled)
         ELSE LET plugin == decoder_plugin_from_name(block.plugin, enabled) IN
              IF plugin = 0
              THEN BuildFrom(cfg, k + 1,
                             [st EXCEPT !.log = Append(@, [level |-> "warning",
                                                           plugin |-> block.plugin])],
                             enabled)
              ELSE LET codecs == ParseCodecList(GetBlockValue(block, "codecs", nullptr))
                   IN  BuildFrom(cfg, k + 1,
                                 [st EXCEPT !.table = AddCodecs(@, codecs, 1, plugin)],
                                 enabled)

\* variant: without decoder_codec_priorities.clear()
BuildDecoderCodecPriorities_NoClear(cfg, enabled, log0) ==
    BuildFrom(cfg, 1, [table |-> decoder_codec_priorities, log |-> log0], enabled)

BuildDecoderCodecPriorities(cfg, enabled, log0) ==
    BuildFrom(cfg, 1, [table |-> EmptyTable, log |-> log0], enabled)

(***************************************************************************)
(* Lookups                                                                 *)
(***************************************************************************)
\* DecoderPlugin::SupportsSuffix(): case-insensitive membership
SupportsSuffix(plugin, suffix) ==
    \E k \in 1..Len(decoder_plugins[plugin].suffixes) :
        LowerCopy(decoder_plugins[plugin].suffixes[k]) = LowerCopy(suffix)

\* variant: a suffix with a priority list counts as supported
decoder_plugins_supports_suffix_Table(suffix, enabled) ==
    LET list == GetEnabledDecoderPlugins(enabled)
    IN  \/ \E k \in 1..Len(list) : SupportsSuffix(list[k], suffix)
        \/ LowerCopy(suffix) \in DOMAIN decoder_codec_priorities

decoder_plugins_supports_suffix(suffix, enabled) ==
    LET list == GetEnabledDecoderPlugins(enabled)
    IN  \E k \in 1..Len(list) : SupportsSuffix(list[k], suffix)

\* variant: the second loop without the std::find() test
RECURSIVE AppendMissing_NoFind(_, _, _)
AppendMissing_NoFind(res, list, k) ==
    IF k > Len(list) THEN res
    ELSE AppendMissing_NoFind(Append(res, list[k]), list, k + 1)

\* the second loop of decoder_plugins_for_suffix
RECURSIVE AppendMissing(_, _, _)
AppendMissing(res, list, k) ==
    IF k > Len(list) THEN res
    ELSE AppendMissing(IF Contains(res, list[k]) THEN res ELSE Append(res, list[k]),
                       list, k + 1)

\* variant: the table is searched with the suffix as given
decoder_plugins_for_suffix_KeepCase(suffix, enabled, table) ==
    LET res == IF suffix # <<>> /\ suffix \in DOMAIN table THEN table[suffix] ELSE <<>>
    IN  AppendMissing(res, GetEnabledDecoderPlugins(enabled), 1)

\* variant: the second loop goes over decoder_plugins[], enabled or not
decoder_plugins_for_suffix_All(suffix, enabled, table) ==
    LET key == LowerCopy(suffix)
        res == IF suffix # <<>> /\ key \in DOMAIN table THEN table[key] ELSE <<>>
    IN  AppendMissing(res, [p \in PluginIds |-> p], 1)

decoder_plugins_for_suffix(suffix, enabled, table) ==
    LET key == LowerCopy(suffix)
        res == IF suffix # <<>> /\ key \in DOMAIN table THEN table[key] ELSE <<>>
    IN  AppendMissing(res, GetEnabledDecoderPlugins(enabled), 1)

(***************************************************************************)
(* decoder_plugin_init_all, one plugin per step                            *)
(***************************************************************************)
Init ==
    /\ decoder_plugins_enabled = [p \in PluginIds |-> FALSE]
    /\ decoder_codec_priorities = EmptyTable
    /\ pc = "idle"
    /\ config = ConfigEmpty
    /\ i = 0
    /\ calls = [p \in PluginIds |-> "none"]
    /\ error = ""
    /\ used = {}
    /\ log = <<>>
    /\ built = [config |-> ConfigEmpty,
                enabled |-> [p \in PluginIds |-> FALSE],
                before |-> EmptyTable]
    /\ finished = <<>>
    /\ nInitTrue = [p \in PluginIds |-> 0]
    /\ nFinish = [p \in PluginIds |-> 0]
    /\ ninit = 0
    /\ ndeinit = 0
    /\ last = "none"
    /\ result = NoResult
    /\ DecodeInit

\* the caller enters decoder_plugin_init_all(c); the calls are counted, and
\* their number bounded, when counted is set
InitBegin(c, counted) ==
    /\ pc = "idle"
    /\ result = NoResult
    /\ counted => ninit < MaxInit
    /\ pc' = "init"
    /\ config' = c
    /\ i' = 1
    /\ calls' = [p \in PluginIds |-> "none"]
    /\ error' = ""
    /\ used' = {}
    /\ log' = <<>>
    /\ finished' = <<>>
    /\ ninit' = IF counted THEN ninit + 1 ELSE ninit
    /\ last' = "init"
    /\ UNCHANGED decvars
    /\ UNCHANGED <<decoder_plugins_enabled, decoder_codec_priorities, built,
                   nInitTrue, nFinish, ndeinit, result>>

\* the block FindBlock returns for plugin i, 0 when there is none
Param == FindBlock(config, decoder_plugins[i].name)

\* "the plugin is disabled in mpd.conf"
DisabledInConfig == Param # 0 /\ ~GetBlockValue(config[Param], "enabled", TRUE)

\* the end of one loop iteration: go to the next plugin, or leave the loop
\* and build the priority table
NextPlugin(enabled2, log2) ==
    IF i < num_decoder_plugins
    THEN /\ i' = i + 1
         /\ pc' = "init"
         /\ log' = log2
         /\ UNCHANGED <<decoder_codec_priorities, built>>
    ELSE LET b == BuildDecoderCodecPriorities(config, enabled2, log2) IN
         /\ i' = i + 1
         /\ pc' = "idle"
         /\ decoder_codec_priorities' = b.table
         /\ log' = b.log
         /\ built' = [config |-> config, enabled |-> enabled2,
                      before |-> decoder_codec_priorities]

\* variant: SetUsed before the "enabled" test
InitSkipDisabled_SetUsed ==
    /\ pc = "init"
    /\ DisabledInConfig
    /\ used' = used \cup ({Param} \ {0})
    /\ calls' = [calls EXCEPT ![i] = "skipped"]
    /\ NextPlugin(decoder_plugins_enabled, log)
    /\ UNCHANGED decvars
    /\ UNCHANGED <<decoder_plugins_enabled, config, error, finished,
                   nInitTrue, nFinish, ninit, ndeinit, last, result>>

InitSkipDisabled ==
    /\ pc = "init"
    /\ DisabledInConfig
    /\ calls' = [calls EXCEPT ![i] = "skipped"]
    /\ NextPlugin(decoder_plugins_enabled, log)
    /\ UNCHANGED decvars
    /\ UNCHANGED <<decoder_plugins_enabled, config, error, used, finished,
                   nInitTrue, nFinish, ninit, ndeinit, last, result>>

\* param->SetUsed(), on the block of the configuration or on the empty one
SetUsed == used \cup ({Param} \ {0})

InitReturnsTrue(counted) ==
    /\ pc = "init"
    /\ ~DisabledInConfig
    /\ used' = SetUsed
    /\ calls' = [calls EXCEPT ![i] = "true"]
    /\ decoder_plugins_enabled' = [decoder_plugins_enabled EXCEPT ![i] = TRUE]
    /\ nInitTrue' = IF counted THEN [nInitTrue EXCEPT ![i] = @ + 1] ELSE nInitTrue
    /\ NextPlugin(decoder_plugins_enabled', log)
    /\ UNCHANGED decvars
    /\ UNCHANGED <<config, error, finished, nFinish, ninit, ndeinit, last, result>>

\* variant: the flag is set whatever Init returns
InitReturnsFalse_SetsFlag ==
    /\ pc = "init"
    /\ ~DisabledInConfig
    /\ used' = SetUsed
    /\ calls' = [calls EXCEPT ![i] = "false"]
    /\ decoder_plugins_enabled' = [decoder_plugins_enabled EXCEPT ![i] = TRUE]
    /\ NextPlugin(decoder_plugins_enabled', log)
    /\ UNCHANGED decvars
    /\ UNCHANGED <<config, error, finished, nInitTrue,
                   nFinish, ninit, ndeinit, last, result>>

InitReturnsFalse ==
    /\ pc = "init"
    /\ ~DisabledInConfig
    /\ used' = SetUsed
    /\ calls' = [calls EXCEPT ![i] = "false"]
    /\ NextPlugin(decoder_plugins_enabled, log)
    /\ UNCHANGED decvars
    /\ UNCHANGED <<decoder_plugins_enabled, config, error, finished, nInitTrue,
                   nFinish, ninit, ndeinit, last, result>>

\* variant: PluginUnavailable handled like any other exception
InitUnavailable_Abort ==
    /\ pc = "init"
    /\ ~DisabledInConfig
    /\ used' = SetUsed
    /\ calls' = [calls EXCEPT ![i] = "unavailable"]
    /\ error' = decoder_plugins[i].name
    /\ pc' = "idle"
    /\ UNCHANGED decvars
    /\ UNCHANGED <<decoder_plugins_enabled, decoder_codec_priorities, config, i,
                   log, built, finished, nInitTrue, nFinish,
                   ninit, ndeinit, last, result>>

\* variant: PluginUnavailable logged with FmtWarning
InitUnavailable_Warning ==
    /\ pc = "init"
    /\ ~DisabledInConfig
    /\ used' = SetUsed
    /\ calls' = [calls EXCEPT ![i] = "unavailable"]
    /\ NextPlugin(decoder_plugins_enabled,
                  Append(log, [level |-> "warning",
                               plugin |-> decoder_plugins[i].name]))
    /\ UNCHANGED decvars
    /\ UNCHANGED <<decoder_plugins_enabled, config, error, finished, nInitTrue,
                   nFinish, ninit, ndeinit, last, result>>

InitUnavailable ==
    /\ pc = "init"
    /\ ~DisabledInConfig
    /\ used' = SetUsed
    /\ calls' = [calls EXCEPT ![i] = "unavailable"]
    /\ NextPlugin(decoder_plugins_enabled,
                  Append(log, [level |-> "error",
                               plugin |-> decoder_plugins[i].name]))
    /\ UNCHANGED decvars
    /\ UNCHANGED <<decoder_plugins_enabled, config, error, finished, nInitTrue,
                   nFinish, ninit, ndeinit, last, result>>

\* variant: the exception is swallowed and the loop goes on
InitFails_Continue ==
    /\ pc = "init"
    /\ ~DisabledInConfig
    /\ used' = SetUsed
    /\ calls' = [calls EXCEPT ![i] = "fatal"]
    /\ error' = decoder_plugins[i].name
    /\ NextPlugin(decoder_plugins_enabled, log)
    /\ UNCHANGED decvars
    /\ UNCHANGED <<decoder_plugins_enabled, config, finished, nInitTrue, nFinish,
                   ninit, ndeinit, last, result>>

\* variant: the table is rebuilt before the exception leaves the function
InitFails_Rebuild ==
    /\ pc = "init"
    /\ ~DisabledInConfig
    /\ used' = SetUsed
    /\ calls' = [calls EXCEPT ![i] = "fatal"]
    /\ error' = decoder_plugins[i].name
    /\ pc' = "idle"
    /\ LET b == BuildDecoderCodecPriorities(config, decoder_plugins_enabled, log) IN
         /\ decoder_codec_priorities' = b.table
         /\ log' = b.log
         /\ built' = [config |-> config, enabled |-> decoder_plugins_enabled,
                      before |-> decoder_codec_priorities]
    /\ UNCHANGED decvars
    /\ UNCHANGED <<decoder_plugins_enabled, config, i, finished, nInitTrue,
                   nFinish, ninit, ndeinit, last, result>>

\* variant: the plugins initialized earlier in the call are disabled again
\* before the exception leaves the function
InitFails_Rollback ==
    /\ pc = "init"
    /\ ~DisabledInConfig
    /\ used' = SetUsed
    /\ calls' = [calls EXCEPT ![i] = "fatal"]
    /\ error' = decoder_plugins[i].name
    /\ pc' = "idle"
    /\ decoder_plugins_enabled' =
          [p \in PluginIds |-> decoder_plugins_enabled[p] /\ calls[p] # "true"]
    /\ UNCHANGED decvars
    /\ UNCHANGED <<decoder_codec_priorities, config, i,
                   log, built, finished, nInitTrue, nFinish,
                   ninit, ndeinit, last, result>>

\* any other exception: std::throw_with_nested leaves the function
InitFails ==
    /\ pc = "init"
    /\ ~DisabledInConfig
    /\ used' = SetUsed
    /\ calls' = [calls EXCEPT ![i] = "fatal"]
    /\ error' = decoder_plugins[i].name
    /\ pc' = "idle"
    /\ UNCHANGED decvars
    /\ UNCHANGED <<decoder_plugins_enabled, decoder_codec_priorities, config, i,
                   log, built, finished, nInitTrue, nFinish,
                   ninit, ndeinit, last, result>>

(***************************************************************************)
(* decoder_plugin_deinit_all                                               *)
(***************************************************************************)
\* variant: Finish called from the last enabled plugin back to the first
DeinitAll_Reverse(counted) ==
    /\ pc = "idle"
    /\ result = NoResult
    /\ counted => ndeinit < MaxDeinit
    /\ finished' = LET list == GetEnabledDecoderPlugins(decoder_plugins_enabled)
                   IN  [k \in 1..Len(list) |-> list[Len(list) + 1 - k]]
    /\ nFinish' = IF counted
                  THEN [p \in PluginIds |->
                          IF Contains(GetEnabledDecoderPlugins(decoder_plugins_enabled), p)
                          THEN nFinish[p] + 1 ELSE nFinish[p]]
                  ELSE nFinish
    /\ ndeinit' = IF counted THEN ndeinit + 1 ELSE ndeinit
    /\ last' = "deinit"
    /\ UNCHANGED decvars
    /\ UNCHANGED <<decoder_plugins_enabled, decoder_codec_priorities, pc, config,
                   i, calls, error, used, log, built, nInitTrue, ninit, result>>

\* variant: the flags are cleared once the plugins are finished
DeinitAll_ClearsFlags(counted) ==
    /\ pc = "idle"
    /\ result = NoResult
    /\ counted => ndeinit < MaxDeinit
    /\ finished' = GetEnabledDecoderPlugins(decoder_plugins_enabled)
    /\ decoder_plugins_enabled' = [p \in PluginIds |-> FALSE]
    /\ nFinish' = IF counted
                  THEN [p \in PluginIds |->
                          IF Contains(GetEnabledDecoderPlugins(decoder_plugins_enabled), p)
                          THEN nFinish[p] + 1 ELSE nFinish[p]]
                  ELSE nFinish
    /\ ndeinit' = IF counted THEN ndeinit + 1 ELSE ndeinit
    /\ last' = "deinit"
    /\ UNCHANGED decvars
    /\ UNCHANGED <<decoder_codec_priorities, pc, config,
                   i, calls, error, used, log, built, nInitTrue, ninit, result>>

DeinitAll(counted) ==
    /\ pc = "idle"
    /\ result = NoResult
    /\ counted => ndeinit < MaxDeinit
    /\ finished' = GetEnabledDecoderPlugins(decoder_plugins_enabled)
    /\ nFinish' = IF counted
                  THEN [p \in PluginIds |->
                          IF Contains(GetEnabledDecoderPlugins(decoder_plugins_enabled), p)
                          THEN nFinish[p] + 1 ELSE nFinish[p]]
                  ELSE nFinish
    /\ ndeinit' = IF counted THEN ndeinit + 1 ELSE ndeinit
    /\ last' = "deinit"
    /\ UNCHANGED decvars
    /\ UNCHANGED <<decoder_plugins_enabled, decoder_codec_priorities, pc, config,
                   i, calls, error, used, log, built, nInitTrue, ninit, result>>

(***************************************************************************)
(* The lookups, called only outside init / deinit.  The caller makes one    *)
(* call at a time: result holds what the lookup returned until the caller  *)
(* has taken it.                                                           *)
(***************************************************************************)
LookupUnchanged ==
    /\ UNCHANGED decvars
    /\ UNCHANGED <<decoder_plugins_enabled, decoder_codec_priorities, pc, config,
                   i, calls, error, used, log, built, finished, nInitTrue,
                   nFinish, ninit, ndeinit, last>>

\* variant: the table is read with operator[], which creates the entry
ForSuffix_CreatesEntry(s) ==
    /\ pc = "idle"
    /\ result = NoResult
    /\ result' = [op |-> "for_suffix", arg |-> s,
                  ret |-> decoder_plugins_for_suffix(s, decoder_plugins_enabled,
                                                     decoder_codec_priorities)]
    /\ decoder_codec_priorities' =
          [t \in DOMAIN decoder_codec_priorities \cup {LowerCopy(s)} |->
              IF t \in DOMAIN decoder_codec_priorities
              THEN decoder_codec_priorities[t] ELSE <<>>]
    /\ UNCHANGED decvars
    /\ UNCHANGED <<decoder_plugins_enabled, pc, config, i, calls, error, used,
                   log, built, finished, nInitTrue, nFinish, ninit, ndeinit, last>>

ForSuffix(s) ==
    /\ pc = "idle"
    /\ result = NoResult
    /\ result' = [op |-> "for_suffix", arg |-> s,
                  ret |-> decoder_plugins_for_suffix(s, decoder_plugins_enabled,
                                                     decoder_codec_priorities)]
    /\ LookupUnchanged

SupportsSuffixLookup(s) ==
    /\ pc = "idle"
    /\ result = NoResult
    /\ result' = [op |-> "supports_suffix", arg |-> s,
                  ret |-> decoder_plugins_supports_suffix(s, decoder_plugins_enabled)]
    /\ LookupUnchanged

FromName(n) ==
    /\ pc = "idle"
    /\ result = NoResult
    /\ result' = [op |-> "from_name", arg |-> n,
                  ret |-> decoder_plugin_from_name(n, decoder_plugins_enabled)]
    /\ LookupUnchanged

LookupReturn ==
    /\ result # NoResult
    /\ result' = NoResult
    /\ LookupUnchanged

Next ==
    \/ \E c \in Configs : InitBegin(c, FALSE)
    \/ InitSkipDisabled
    \/ InitReturnsTrue(FALSE)
    \/ InitReturnsFalse
    \/ InitUnavailable
    \/ InitFails
    \/ DeinitAll(FALSE)
    \/ \E s \in Suffixes : ForSuffix(s)
    \/ \E s \in Suffixes : SupportsSuffixLookup(s)
    \/ \E n \in Names : FromName(n)
    \/ LookupReturn

Spec == Init /\ [][Next]_vars

\* the lifecycle calls alone, counted and bounded in number
NextCount ==
    \/ \E c \in CountConfigs : InitBegin(c, TRUE)
    \/ InitSkipDisabled
    \/ InitReturnsTrue(TRUE)
    \/ InitReturnsFalse
    \/ InitUnavailable
    \/ InitFails
    \/ DeinitAll(TRUE)

SpecCount == Init /\ [][NextCount]_vars

(***************************************************************************)
(* ParseCodecList on its own: the configuration is any of ParseConfigs,    *)
(* the parser is applied to the codecs value of its block as line 112      *)
(* does, and decoder_plugin_init_all builds the table from it.             *)
(***************************************************************************)
InitParse ==
    /\ decoder_plugins_enabled = [p \in PluginIds |-> FALSE]
    /\ decoder_codec_priorities = EmptyTable
    /\ pc = "idle"
    /\ config \in ParseConfigs
    /\ i = 0
    /\ calls = [p \in PluginIds |-> "none"]
    /\ error = ""
    /\ used = {}
    /\ log = <<>>
    /\ built = [config |-> ConfigEmpty,
                enabled |-> [p \in PluginIds |-> FALSE],
                before |-> EmptyTable]
    /\ finished = <<>>
    /\ nInitTrue = [p \in PluginIds |-> 0]
    /\ nFinish = [p \in PluginIds |-> 0]
    /\ ninit = 0
    /\ ndeinit = 0
    /\ last = "none"
    /\ result = NoResult
    /\ DecodeInit

\* "ParseCodecList(block.GetBlockValue("codecs"))" on the block of config
ParseCodecs ==
    /\ pc = "idle"
    /\ result = NoResult
    /\ LET value == GetBlockValue(config[1], "codecs", nullptr) IN
          result' = [op |-> "parse", arg |-> value, ret |-> ParseCodecList(value)]
    /\ LookupUnchanged

NextParse ==
    \/ ParseCodecs
    \/ LookupReturn
    \/ InitBegin(config, FALSE)
    \/ InitReturnsTrue(FALSE)

SpecParse == InitParse /\ [][NextParse]_vars

(***************************************************************************)
(* Decode of one file, one call at a time.  A step ends where SubmitAudio  *)
(* has returned (and the frame counter of the buffer is updated), or where *)
(* the loop is about to render the next buffer, or where Decode has        *)
(* returned.                                                               *)
(***************************************************************************)
GsfTracks == {t \in Tracks : t.version = 0}

UpseTracks == {t \in Tracks : t.version = 0 /\ t.fade_ms = 0}

\* the tracks whose duration, fade included, is at most the longest length
AopsfTracks ==
    {t \in Tracks : \E l \in LengthsMs : t.length_ms + t.fade_ms <= l}

\* Decode returns; how says which way
Leave(how) ==
    /\ dpc' = "returned"
    /\ exit' = how

\* a Decode is entered while none runs
DecodeEnter(plugin, t) ==
    /\ dplugin = "none"
    /\ dpc = "idle"
    /\ \A th \in Threads : threads[th] = NoThread
    /\ dplugin' = plugin
    /\ track' = t

\* lazygsf / lazyusf: a buffer of B frames was rendered; the counters are
\* updated and the buffer is submitted
FadeLoopSubmit(B) ==
    LET c == CountersAfterRender(B, HasLength(track), song_remaining,
                                 fade_remaining)
    IN  /\ song_remaining' = c.song
        /\ fade_remaining' = c.fade
        /\ rendered' = [frames |-> B,
                        faded |-> HasLength(track) /\ song_remaining <= B,
                        fade_start |-> MaxOf(song_remaining, 0),
                        fade_remaining |-> fade_remaining,
                        skipped |-> 0]
        /\ \E command \in Commands, s \in SeekTimesMs :
              /\ cmd' = command
              /\ seek_ms' = IF command = "SEEK" THEN s ELSE seek_ms
              /\ client' = SubmitAudio(client, command)
        /\ dpc' = "submitted"
        /\ UNCHANGED exit

\* variant: the loop goes on after STOP
FadeLoopAfterSubmit_IgnoresStop(chunk) ==
    LET has_length == HasLength(track)
        length_frames == LengthFrames(dplugin, track)
        fade_total == FadeTotal(dplugin, track)
        seek_frames == ToFrames(seek_ms, SampleRate(dplugin, track))
        to_skip == ToSkip(has_length, length_frames, seek_frames)
        c == CountersAfterSeek(has_length, length_frames, fade_total, seek_frames)
    IN  IF has_length /\ song_remaining <= 0 /\ fade_remaining <= 0
        THEN /\ Leave("end of track")
             /\ UNCHANGED <<song_remaining, fade_remaining, client, rendered>>
        ELSE IF cmd = "SEEK"
        THEN \E ok \in IF SkipFramesCalls(to_skip, chunk) > 0 THEN BOOLEAN
                                                             ELSE {TRUE} :
                IF ok
                THEN /\ song_remaining' = c.song
                     /\ fade_remaining' = c.fade
                     /\ rendered' = [rendered EXCEPT
                                       !.skipped = SkipFrames(to_skip, chunk)]
                     /\ client' = CommandFinished(client)
                     /\ dpc' = "loop"
                     /\ UNCHANGED exit
                ELSE /\ song_remaining' = length_frames
                     /\ fade_remaining' = fade_total
                     /\ Leave("seek failed")
                     /\ UNCHANGED <<client, rendered>>
        ELSE /\ dpc' = "loop"
             /\ UNCHANGED <<song_remaining, fade_remaining, client, exit,
                         rendered>>

\* lazygsf / lazyusf: the rest of the loop body after SubmitAudio, and the
\* loop condition; chunk is the chunk size of SkipFrames
FadeLoopAfterSubmit(chunk) ==
    LET has_length == HasLength(track)
        length_frames == LengthFrames(dplugin, track)
        fade_total == FadeTotal(dplugin, track)
        seek_frames == ToFrames(seek_ms, SampleRate(dplugin, track))
        to_skip == ToSkip(has_length, length_frames, seek_frames)
        c == CountersAfterSeek(has_length, length_frames, fade_total, seek_frames)
    IN  IF has_length /\ song_remaining <= 0 /\ fade_remaining <= 0
        THEN \* break
             /\ Leave("end of track")
             /\ UNCHANGED <<song_remaining, fade_remaining, client, rendered>>
        ELSE IF cmd = "SEEK"
        THEN \E ok \in IF SkipFramesCalls(to_skip, chunk) > 0 THEN BOOLEAN
                                                             ELSE {TRUE} :
                IF ok
                THEN /\ song_remaining' = c.song
                     /\ fade_remaining' = c.fade
                     /\ rendered' = [rendered EXCEPT
                                       !.skipped = SkipFrames(to_skip, chunk)]
                     /\ client' = CommandFinished(client)
                     /\ dpc' = "loop"
                     /\ UNCHANGED exit
                ELSE \* "seek failed": return
                     /\ song_remaining' = length_frames
                     /\ fade_remaining' = fade_total
                     /\ Leave("seek failed")
                     /\ UNCHANGED <<client, rendered>>
        ELSE /\ IF cmd = "STOP" THEN Leave("STOP")
                                ELSE dpc' = "loop" /\ UNCHANGED exit
             /\ UNCHANGED <<song_remaining, fade_remaining, client, rendered>>

\* gsf_file_decode up to the loop
gsf_file_decode_Begin(t) ==
    /\ DecodeEnter("lazygsf", t)
    /\ gsf_initialized' = TRUE
    /\ nLibInit' = IF gsf_initialized THEN nLibInit
                   ELSE [nLibInit EXCEPT !["lazygsf"] = @ + 1]
    /\ \E outcome \in {"out of memory", "load failed", "ok"} :
          IF outcome = "ok"
          THEN /\ client' = Ready(client)
               /\ song_remaining' = LengthFrames("lazygsf", t)
               /\ fade_remaining' = FadeTotal("lazygsf", t)
               /\ dpc' = "loop"
               /\ UNCHANGED exit
          ELSE /\ Leave(outcome)
               /\ UNCHANGED <<client, song_remaining, fade_remaining>>
    /\ UNCHANGED <<cmd, seek_ms, frames_played, psx, upse_initialized, threads>>
    /\ UNCHANGED rendered
    /\ UNCHANGED <<nPluginInit, regvars>>

gsf_Render ==
    /\ dplugin = "lazygsf"
    /\ dpc = "loop"
    /\ client.nSubmit < MaxSubmit
    /\ \E ok \in BOOLEAN :
          IF ok
          THEN FadeLoopSubmit(GSF_BUFFER_FRAMES)
          ELSE /\ Leave("render error")
               /\ UNCHANGED <<song_remaining, fade_remaining, cmd, seek_ms, client,
                              rendered>>
    /\ UNCHANGED <<dplugin, track, frames_played, psx, gsf_initialized,
                   upse_initialized, nLibInit, threads>>
    /\ UNCHANGED <<nPluginInit, regvars>>

gsf_AfterSubmit ==
    /\ dplugin = "lazygsf"
    /\ dpc = "submitted"
    /\ FadeLoopAfterSubmit(GSF_SEEK_CHUNK_FRAMES)
    /\ UNCHANGED <<dplugin, track, cmd, seek_ms, frames_played, psx,
                   gsf_initialized, upse_initialized, nLibInit, threads>>
    /\ UNCHANGED <<nPluginInit, regvars>>

\* lazyusf_file_decode up to the loop
lazyusf_file_decode_Begin(t) ==
    /\ DecodeEnter("lazyusf", t)
    /\ \E outcome \in {"out of memory", "open failed", "probe error",
                       "invalid sample rate", "ok"} :
          IF outcome = "ok"
          THEN /\ client' = Ready(client)
               /\ song_remaining' = LengthFrames("lazyusf", t)
               /\ fade_remaining' = FadeTotal("lazyusf", t)
               /\ dpc' = "loop"
               /\ UNCHANGED exit
          ELSE /\ Leave(outcome)
               /\ UNCHANGED <<client, song_remaining, fade_remaining>>
    /\ UNCHANGED <<cmd, seek_ms, frames_played, psx, gsf_initialized,
                   upse_initialized, nLibInit, threads>>
    /\ UNCHANGED rendered
    /\ UNCHANGED <<nPluginInit, regvars>>

lazyusf_Render ==
    /\ dplugin = "lazyusf"
    /\ dpc = "loop"
    /\ client.nSubmit < MaxSubmit
    /\ \E ok \in BOOLEAN :
          IF ok
          THEN FadeLoopSubmit(LAZYUSF_BUFFER_FRAMES)
          ELSE /\ Leave("render error")
               /\ UNCHANGED <<song_remaining, fade_remaining, cmd, seek_ms, client,
                              rendered>>
    /\ UNCHANGED <<dplugin, track, frames_played, psx, gsf_initialized,
                   upse_initialized, nLibInit, threads>>
    /\ UNCHANGED <<nPluginInit, regvars>>

lazyusf_AfterSubmit ==
    /\ dplugin = "lazyusf"
    /\ dpc = "submitted"
    /\ FadeLoopAfterSubmit(LAZYUSF_SEEK_CHUNK_FRAMES)
    /\ UNCHANGED <<dplugin, track, cmd, seek_ms, frames_played, psx,
                   gsf_initialized, upse_initialized, nLibInit, threads>>
    /\ UNCHANGED <<nPluginInit, regvars>>

\* upse_file_decode up to the loop
upse_file_decode_Begin(t) ==
    /\ DecodeEnter("upse", t)
    /\ upse_initialized' = TRUE
    /\ nLibInit' = IF upse_initialized THEN nLibInit
                   ELSE [nLibInit EXCEPT !["upse"] = @ + 1]
    /\ \E outcome \in {"error loading file", "ok"} :
          IF outcome = "ok"
          THEN /\ client' = Ready(client)
               /\ dpc' = "loop"
               /\ UNCHANGED exit
          ELSE /\ Leave(outcome)
               /\ UNCHANGED client
    /\ frames_played' = 0
    /\ UNCHANGED <<cmd, seek_ms, song_remaining, fade_remaining, psx,
                   gsf_initialized, threads>>
    /\ UNCHANGED rendered
    /\ UNCHANGED <<nPluginInit, regvars>>

upse_Render ==
    /\ dplugin = "upse"
    /\ dpc = "loop"
    /\ client.nSubmit < MaxSubmit
    /\ \E frames \in UpseRenderFrames, samples \in {"nullptr", "samples"} :
          IF frames <= 0
          THEN \* break
               /\ Leave("end of stream")
               /\ UNCHANGED <<cmd, seek_ms, client, frames_played, rendered>>
          ELSE IF samples = "nullptr"
          THEN \* continue: the loop condition is tested next
               /\ IF cmd = "STOP" THEN Leave("STOP") ELSE UNCHANGED <<dpc, exit>>
               /\ UNCHANGED <<cmd, seek_ms, client, frames_played, rendered>>
          ELSE /\ \E command \in Commands, s \in SeekTimesMs :
                     /\ cmd' = command
                     /\ seek_ms' = IF command = "SEEK" THEN s ELSE seek_ms
                     /\ client' = SubmitAudio(client, command)
               /\ frames_played' = frames_played + frames
               /\ rendered' = [NoRendered EXCEPT !.frames = frames]
               /\ dpc' = "submitted"
               /\ UNCHANGED exit
    /\ UNCHANGED <<dplugin, track, song_remaining, fade_remaining, psx,
                   gsf_initialized, upse_initialized, nLibInit, threads>>
    /\ UNCHANGED <<nPluginInit, regvars>>

upse_AfterSubmit ==
    /\ dplugin = "upse"
    /\ dpc = "submitted"
    /\ LET has_length == HasLength(track)
           length_frames == LengthFrames("upse", track)
       IN  IF has_length /\ frames_played >= length_frames
           THEN /\ Leave("end of track")
                /\ UNCHANGED <<frames_played, client>>
           ELSE IF cmd = "SEEK"
           THEN /\ frames_played' = IF has_length
                                    THEN ToFrames(seek_ms, SampleRate("upse", track))
                                    ELSE frames_played
                /\ client' = CommandFinished(client)
                /\ dpc' = "loop"
                /\ UNCHANGED exit
           ELSE /\ IF cmd = "STOP" THEN Leave("STOP")
                                   ELSE dpc' = "loop" /\ UNCHANGED exit
                /\ UNCHANGED <<frames_played, client>>
    /\ UNCHANGED <<dplugin, track, cmd, seek_ms, song_remaining, fade_remaining,
                   psx, gsf_initialized, upse_initialized, nLibInit, threads>>
    /\ UNCHANGED rendered
    /\ UNCHANGED <<nPluginInit, regvars>>

\* variant: the scope exit of aopsf_file_decode stops the emulator whether or
\* not it was started
AtScopeExit_AlwaysStops(r) ==
    [r EXCEPT !.nStop = @ + 1,
              !.nFsDelete = IF r.psf2fs THEN @ + 1 ELSE @,
              !.nFree = @ + 1]

\* the AtScopeExit block of aopsf_file_decode
AtScopeExit(r) ==
    [r EXCEPT !.nStop = IF r.started THEN @ + 1 ELSE @,
              !.nFsDelete = IF r.psf2fs THEN @ + 1 ELSE @,
              !.nFree = @ + 1]

\* aopsf_file_decode: the probe and the allocation of the emulator state
aopsf_file_decode_Begin(t) ==
    /\ DecodeEnter("aopsf", t)
    /\ IF t.version <= 0
       THEN /\ Leave("error probing file")
            /\ UNCHANGED psx
       ELSE \E ok \in BOOLEAN :
               IF ok
               THEN /\ psx' = [psx EXCEPT !.allocated = TRUE]
                    /\ dpc' = "load"
                    /\ UNCHANGED exit
               ELSE /\ Leave("allocation failed")
                    /\ UNCHANGED psx
    /\ frames_played' = 0
    /\ UNCHANGED <<cmd, seek_ms, song_remaining, fade_remaining, client,
                   gsf_initialized, upse_initialized, nLibInit, threads>>
    /\ UNCHANGED rendered
    /\ UNCHANGED <<nPluginInit, regvars>>

\* what the load and the start of the emulator can come to, by version
LoadOutcomes(version) ==
    CASE version = 1 -> {"invalid PSF file", "PSF start failed", "ok"}
      [] version = 2 -> {"PSF2 filesystem init failed", "invalid PSF2 file",
                         "PSF2 start failed", "ok"}
      [] OTHER       -> {"unsupported PSF version"}

\* variant: Ready is called before the file is loaded
aopsf_Load_ReadyFirst ==
    /\ dplugin = "aopsf"
    /\ dpc = "load"
    /\ \E outcome \in LoadOutcomes(track.version) :
          LET body == [psx EXCEPT
                         !.psf2fs = track.version = 2 /\
                                    outcome # "PSF2 filesystem init failed",
                         !.nFsCreate = IF track.version = 2 /\
                                          outcome # "PSF2 filesystem init failed"
                                       THEN @ + 1 ELSE @,
                         !.nStart = IF outcome = "ok" THEN @ + 1 ELSE @,
                         !.started = (outcome = "ok")]
          IN  /\ client' = Ready(client)
              /\ IF outcome = "ok"
                 THEN /\ psx' = body
                      /\ dpc' = "loop"
                      /\ UNCHANGED exit
                 ELSE /\ psx' = AtScopeExit(body)
                      /\ Leave(outcome)
    /\ UNCHANGED <<dplugin, track, cmd, seek_ms, song_remaining, fade_remaining,
                   frames_played, gsf_initialized, upse_initialized, nLibInit,
                   threads>>
    /\ UNCHANGED rendered
    /\ UNCHANGED <<nPluginInit, regvars>>

\* aopsf_file_decode from the scope guard to client.Ready
aopsf_Load ==
    /\ dplugin = "aopsf"
    /\ dpc = "load"
    /\ \E outcome \in LoadOutcomes(track.version) :
          LET body == [psx EXCEPT
                         !.psf2fs = track.version = 2 /\
                                    outcome # "PSF2 filesystem init failed",
                         !.nFsCreate = IF track.version = 2 /\
                                          outcome # "PSF2 filesystem init failed"
                                       THEN @ + 1 ELSE @,
                         !.nStart = IF outcome = "ok" THEN @ + 1 ELSE @,
                         !.started = (outcome = "ok")]
          IN  IF outcome = "ok"
              THEN /\ psx' = body
                   /\ client' = Ready(client)
                   /\ dpc' = "loop"
                   /\ UNCHANGED exit
              ELSE /\ psx' = AtScopeExit(body)
                   /\ Leave(outcome)
                   /\ UNCHANGED client
    /\ UNCHANGED <<dplugin, track, cmd, seek_ms, song_remaining, fade_remaining,
                   frames_played, gsf_initialized, upse_initialized, nLibInit,
                   threads>>
    /\ UNCHANGED rendered
    /\ UNCHANGED <<nPluginInit, regvars>>

\* variant: every buffer is rendered with AOPSF_BUFFER_FRAMES frames
aopsf_Render_FullBuffer ==
    /\ dplugin = "aopsf"
    /\ dpc = "loop"
    /\ client.nSubmit < MaxSubmit
    /\ LET has_length == HasLength(track)
           remaining == LengthFrames("aopsf", track) - frames_played
           frames == AOPSF_BUFFER_FRAMES
       IN  IF has_length /\ remaining <= 0
           THEN \* break
                /\ Leave("end of track")
                /\ psx' = AtScopeExit(psx)
                /\ UNCHANGED <<cmd, seek_ms, client, frames_played, rendered>>
           ELSE \E ok \in BOOLEAN :
                   IF ok
                   THEN /\ \E command \in Commands, s \in SeekTimesMs :
                              /\ cmd' = command
                              /\ seek_ms' = IF command = "SEEK" THEN s ELSE seek_ms
                              /\ client' = SubmitAudio(client, command)
                        /\ frames_played' = frames_played + frames
                        /\ rendered' = [NoRendered EXCEPT !.frames = frames]
                        /\ dpc' = "submitted"
                        /\ UNCHANGED <<psx, exit>>
                   ELSE \* break
                        /\ Leave("decode error")
                        /\ psx' = AtScopeExit(psx)
                        /\ UNCHANGED <<cmd, seek_ms, client, frames_played, rendered>>
    /\ UNCHANGED <<dplugin, track, song_remaining, fade_remaining,
                   gsf_initialized, upse_initialized, nLibInit, threads>>
    /\ UNCHANGED <<nPluginInit, regvars>>

aopsf_Render ==
    /\ dplugin = "aopsf"
    /\ dpc = "loop"
    /\ client.nSubmit < MaxSubmit
    /\ LET has_length == HasLength(track)
           remaining == LengthFrames("aopsf", track) - frames_played
           frames == IF has_length THEN MinOf(remaining, AOPSF_BUFFER_FRAMES)
                                   ELSE AOPSF_BUFFER_FRAMES
       IN  IF has_length /\ remaining <= 0
           THEN \* break
                /\ Leave("end of track")
                /\ psx' = AtScopeExit(psx)
                /\ UNCHANGED <<cmd, seek_ms, client, frames_played, rendered>>
           ELSE \E ok \in BOOLEAN :
                   IF ok
                   THEN /\ \E command \in Commands, s \in SeekTimesMs :
                              /\ cmd' = command
                              /\ seek_ms' = IF command = "SEEK" THEN s ELSE seek_ms
                              /\ client' = SubmitAudio(client, command)
                        /\ frames_played' = frames_played + frames
                        /\ rendered' = [NoRendered EXCEPT !.frames = frames]
                        /\ dpc' = "submitted"
                        /\ UNCHANGED <<psx, exit>>
                   ELSE \* break
                        /\ Leave("decode error")
                        /\ psx' = AtScopeExit(psx)
                        /\ UNCHANGED <<cmd, seek_ms, client, frames_played, rendered>>
    /\ UNCHANGED <<dplugin, track, song_remaining, fade_remaining,
                   gsf_initialized, upse_initialized, nLibInit, threads>>
    /\ UNCHANGED <<nPluginInit, regvars>>

aopsf_AfterSubmit ==
    /\ dplugin = "aopsf"
    /\ dpc = "submitted"
    /\ IF cmd = "SEEK"
       THEN \E ok \in BOOLEAN :
               /\ client' = CommandFinished(client)
               /\ IF ok
                  THEN /\ frames_played' =
                             IF HasLength(track)
                             THEN ToFrames(seek_ms, SampleRate("aopsf", track))
                             ELSE 0
                       /\ dpc' = "loop"
                       /\ UNCHANGED <<cmd, psx, exit>>
                  ELSE \* "seek failed"
                       /\ cmd' = "STOP"
                       /\ Leave("seek failed")
                       /\ psx' = AtScopeExit(psx)
                       /\ UNCHANGED frames_played
       ELSE /\ IF cmd = "STOP"
               THEN Leave("STOP") /\ psx' = AtScopeExit(psx)
               ELSE dpc' = "loop" /\ UNCHANGED <<psx, exit>>
            /\ UNCHANGED <<cmd, client, frames_played>>
    /\ UNCHANGED <<dplugin, track, seek_ms, song_remaining, fade_remaining,
                   gsf_initialized, upse_initialized, nLibInit, threads>>
    /\ UNCHANGED rendered
    /\ UNCHANGED <<nPluginInit, regvars>>

\* the caller has taken note of how Decode went; the next Decode starts
\* with a new client
DecodeReturn ==
    /\ dpc = "returned"
    /\ dplugin' = "none"
    /\ dpc' = "idle"
    /\ track' = NoTrack
    /\ cmd' = "NONE"
    /\ seek_ms' = 0
    /\ song_remaining' = 0
    /\ fade_remaining' = 0
    /\ frames_played' = 0
    /\ client' = NoClient
    /\ psx' = NoPsx
    /\ exit' = ""
    /\ UNCHANGED <<gsf_initialized, upse_initialized, nLibInit, threads>>
    /\ rendered' = NoRendered
    /\ UNCHANGED <<nPluginInit, regvars>>

NextDecode ==
    \/ \E t \in GsfTracks : gsf_file_decode_Begin(t)
    \/ gsf_Render
    \/ gsf_AfterSubmit
    \/ \E t \in GsfTracks : lazyusf_file_decode_Begin(t)
    \/ lazyusf_Render
    \/ lazyusf_AfterSubmit
    \/ \E t \in UpseTracks : upse_file_decode_Begin(t)
    \/ upse_Render
    \/ upse_AfterSubmit
    \/ \E t \in AopsfTracks : aopsf_file_decode_Begin(t)
    \/ aopsf_Load
    \/ aopsf_Render
    \/ aopsf_AfterSubmit
    \/ DecodeReturn

SpecDecode == Init /\ [][NextDecode]_vars


(***************************************************************************)
(* The entry of Decode on several decoder threads, step by step, and the    *)
(* init hooks decoder_plugin_init_all calls.  A Decode is dispatched to an *)
(* enabled plugin only, and no init hook runs while a Decode runs.         *)
(***************************************************************************)
\* the place of the plugin in decoder_plugins[]
RegistryId(plugin) ==
    CHOOSE p \in PluginIds : decoder_plugins[p].name = plugin

OnceKept ==
    UNCHANGED <<dplugin, dpc, track, cmd, seek_ms, song_remaining,
                fade_remaining, frames_played, client, psx, exit, rendered>>

NoDecodeRuns == dplugin = "none" /\ \A th \in Threads : threads[th] = NoThread

\* what "plugin.Init(*param)" at line 247 and the assignment at line 249 do
\* for a plugin whose init hook returned true
HookReturnedTrue(plugin) ==
    /\ pc = "idle"
    /\ NoDecodeRuns
    /\ nPluginInit[plugin] < MaxInit
    /\ nPluginInit' = [nPluginInit EXCEPT ![plugin] = @ + 1]
    /\ decoder_plugins_enabled' =
          [decoder_plugins_enabled EXCEPT ![RegistryId(plugin)] = TRUE]
    /\ UNCHANGED <<decoder_codec_priorities, pc, config, i, calls, error, used,
                   log, built, finished, nInitTrue, nFinish, ninit, ndeinit,
                   last, result>>
    /\ UNCHANGED threads
    /\ OnceKept

\* variant: gsf_init() is called by every gsf_plugin_init
gsf_plugin_init_NoTest ==
    /\ HookReturnedTrue("lazygsf")
    /\ nLibInit' = [nLibInit EXCEPT !["lazygsf"] = @ + 1]
    /\ gsf_initialized' = TRUE
    /\ UNCHANGED upse_initialized

gsf_plugin_init ==
    /\ HookReturnedTrue("lazygsf")
    /\ nLibInit' = IF gsf_initialized THEN nLibInit
                   ELSE [nLibInit EXCEPT !["lazygsf"] = @ + 1]
    /\ gsf_initialized' = TRUE
    /\ UNCHANGED upse_initialized

upse_plugin_init ==
    /\ HookReturnedTrue("upse")
    /\ nLibInit' = IF upse_initialized THEN nLibInit
                   ELSE [nLibInit EXCEPT !["upse"] = @ + 1]
    /\ upse_initialized' = TRUE
    /\ UNCHANGED gsf_initialized

\* the flag the decode function of the plugin tests
Initialized(plugin) ==
    IF plugin = "lazygsf" THEN gsf_initialized ELSE upse_initialized

\* thread th is given a file of an enabled plugin and enters its Decode
ThreadEnter(th, plugin) ==
    /\ pc = "idle"
    /\ decoder_plugins_enabled[RegistryId(plugin)]
    /\ threads[th] = NoThread
    /\ threads' = [threads EXCEPT ![th] = [plugin |-> plugin, at |-> "test",
                                           seen |-> FALSE]]
    /\ UNCHANGED <<gsf_initialized, upse_initialized, nLibInit, nPluginInit>>
    /\ OnceKept
    /\ UNCHANGED regvars

\* one step of "if (!initialized) { init(); initialized = true; }" on thread
\* th: the test of the flag, the call, the store
ThreadStep(th) ==
    LET me == threads[th] IN
    /\ me.at \in {"test", "call", "store"}
    /\ CASE me.at = "test" ->
              /\ threads' = [threads EXCEPT
                                ![th].seen = Initialized(me.plugin),
                                ![th].at = IF Initialized(me.plugin)
                                           THEN "body" ELSE "call"]
              /\ UNCHANGED <<gsf_initialized, upse_initialized, nLibInit>>
         [] me.at = "call" ->
              /\ nLibInit' = [nLibInit EXCEPT ![me.plugin] = @ + 1]
              /\ threads' = [threads EXCEPT ![th].at = "store"]
              /\ UNCHANGED <<gsf_initialized, upse_initialized>>
         [] me.at = "store" ->
              /\ gsf_initialized' = (gsf_initialized \/ me.plugin = "lazygsf")
              /\ upse_initialized' = (upse_initialized \/ me.plugin = "upse")
              /\ threads' = [threads EXCEPT ![th].at = "body"]
              /\ UNCHANGED nLibInit
    /\ UNCHANGED nPluginInit
    /\ OnceKept
    /\ UNCHANGED regvars

\* the Decode of thread th returns
ThreadLeave(th) ==
    /\ threads[th].at = "body"
    /\ threads' = [threads EXCEPT ![th] = NoThread]
    /\ UNCHANGED <<gsf_initialized, upse_initialized, nLibInit, nPluginInit>>
    /\ OnceKept
    /\ UNCHANGED regvars

NextOnce ==
    \/ gsf_plugin_init
    \/ upse_plugin_init
    \/ \E th \in Threads, plugin \in OncePlugins : ThreadEnter(th, plugin)
    \/ \E th \in Threads : ThreadStep(th)
    \/ \E th \in Threads : ThreadLeave(th)

SpecOnce == Init /\ [][NextOnce]_vars

TypeOK ==
    /\ decoder_plugins_enabled \in [PluginIds -> BOOLEAN]
    /\ pc \in {"idle", "init"}
    /\ config \in Configs
    /\ i \in 0..(num_decoder_plugins + 1)
    /\ ninit \in 0..MaxInit
    /\ ndeinit \in 0..MaxDeinit
    /\ last \in {"none", "init", "deinit"}

(***************************************************************************)
(* Properties                                                              *)
(***************************************************************************)
Range(seq) == {seq[k] : k \in 1..Len(seq)}

NoDuplicates(seq) ==
    \A a, b \in 1..Len(seq) : seq[a] = seq[b] => a = b

\* the plugins of PluginIds satisfying keep, in static registry order
RegistryOrder(keep) ==
    LET Keep(p) == p \in keep
    IN  SelectSeq([p \in PluginIds |-> p], Keep)

EnabledSet == {p \in PluginIds : decoder_plugins_enabled[p]}

\* the priority list of the lower-cased suffix, empty when there is none
OverrideList(suffix) ==
    IF LowerCopy(suffix) \in DOMAIN decoder_codec_priorities
    THEN decoder_codec_priorities[LowerCopy(suffix)]
    ELSE <<>>

\* the last lifecycle call was decoder_plugin_init_all and it returned normally
InitCompleted == pc = "idle" /\ last = "init" /\ error = ""

\* the last lifecycle call was decoder_plugin_init_all and it threw
InitAborted == pc = "idle" /\ last = "init" /\ error # ""

\* C1: decoder_plugins_for_suffix(s) is the priority list of lower-cased s in
\* configured order, followed by the enabled plugins that are not in that
\* list in static registry order; every plugin of the result occurs once.
C1_OverrideThenRegistryOrder ==
    result.op = "for_suffix" =>
        /\ result.ret = OverrideList(result.arg)
                        \o RegistryOrder(EnabledSet \ Range(OverrideList(result.arg)))
        /\ \A p \in Range(result.ret) :
              Cardinality({k \in 1..Len(result.ret) : result.ret[k] = p}) = 1

\* after a completed init with the override psf -> [lazygsf] and lazyusf,
\* lazygsf enabled, the lookup of "psf" returned [lazygsf, lazyusf]
C1_Witness ==
    /\ InitCompleted
    /\ result.op = "for_suffix"
    /\ result.arg = psf
    /\ OverrideList(psf) = <<2>>
    /\ EnabledSet = {1, 2}
    /\ result.ret = <<2, 1>>

\* C2: whatever init / deinit calls were made, no plugin occurs twice in what
\* decoder_plugins_for_suffix returns, the empty suffix included.
C2_NoDuplicateInResult ==
    result.op = "for_suffix" => NoDuplicates(result.ret)

\* a lookup after init and deinit, for a suffix whose priority list
\* was declared more than once for the same plugin; every plugin is returned
C2_Witness ==
    /\ last = "deinit"
    /\ result.op = "for_suffix"
    /\ result.arg # <<>>
    /\ Len(OverrideList(result.arg)) >= 1
    /\ built.config = ConfigUnknown
    /\ Len(result.ret) = num_decoder_plugins

\* the decoder block of plugin p in cfg sets enabled=false
DisabledBy(cfg, p) ==
    LET k == FindBlock(cfg, decoder_plugins[p].name)
    IN  k # 0 /\ ~GetBlockValue(cfg[k], "enabled", TRUE)

\* the blocks of cfg that name plugin p and list token t in their codecs value
DeclBlocks(cfg, p, t) ==
    {k \in 1..Len(cfg) :
        /\ HasBlockValue(cfg[k], "plugin")
        /\ cfg[k].plugin = decoder_plugins[p].name
        /\ t \in Range(ParseCodecList(GetBlockValue(cfg[k], "codecs", nullptr)))}

AllTokens(cfg) ==
    UNION {Range(ParseCodecList(GetBlockValue(cfg[k], "codecs", nullptr))) :
              k \in 1..Len(cfg)}

Min(S) == CHOOSE x \in S : \A y \in S : x <= y

\* the table a build from cfg yields when the plugins of en are enabled:
\* for each declared token, the enabled plugins declaring it, by first
\* declaration in file order
ExpectedTable(cfg, en) ==
    LET Decl(t) == {p \in PluginIds : en[p] /\ DeclBlocks(cfg, p, t) # {}}
        Keys == {t \in AllTokens(cfg) : Decl(t) # {}}
    IN  [t \in Keys |->
            [n \in 1..Cardinality(Decl(t)) |->
                CHOOSE p \in Decl(t) :
                    Cardinality({q \in Decl(t) :
                        Min(DeclBlocks(cfg, q, t)) < Min(DeclBlocks(cfg, p, t))})
                    = n - 1]]

\* C3: once decoder_plugin_init_all(config) has completed, no priority list
\* contains a plugin that in that call returned false from Init, raised
\* PluginUnavailable, or was skipped as enabled=false.
C3_NotInitializedNotInTable ==
    InitCompleted =>
        \A t \in DOMAIN decoder_codec_priorities :
            \A p \in Range(decoder_codec_priorities[t]) :
                calls[p] \notin {"false", "unavailable", "skipped"}

\* C4: a plugin is in the priority list of token t only if the configuration
\* of the most recent table build has a block naming it whose codecs value
\* contains t, and the plugin was enabled when that table was built.
C4_TableEntriesDeclaredAndEnabled ==
    \A t \in DOMAIN decoder_codec_priorities :
        \A p \in Range(decoder_codec_priorities[t]) :
            /\ DeclBlocks(built.config, p, t) # {}
            /\ built.enabled[p]

\* a second build (lazygsf is enabled from an earlier call): upse is named
\* for gsf but was not enabled, so the list of gsf holds lazyusf alone
C4_Witness ==
    /\ InitCompleted
    /\ built.config = ConfigOverride
    /\ ~built.enabled[3]
    /\ calls[2] = "false"
    /\ decoder_plugins_enabled[2]
    /\ DeclBlocks(built.config, 3, gsf) # {}
    /\ gsf \in DOMAIN decoder_codec_priorities
    /\ decoder_codec_priorities[gsf] = <<1>>

\* C5: after decoder_plugin_init_all(c) completed, a plugin whose block in c
\* sets enabled=false is not enabled, is not returned by
\* decoder_plugins_for_suffix and does not make
\* decoder_plugins_supports_suffix true.
C5_DisabledByLatestConfig ==
    InitCompleted =>
        \A p \in PluginIds :
            DisabledBy(config, p) =>
                /\ ~decoder_plugins_enabled[p]
                /\ result.op = "for_suffix" => p \notin Range(result.ret)
                /\ (result.op = "supports_suffix" /\ result.ret) =>
                      \E q \in EnabledSet \ {p} : SupportsSuffix(q, result.arg)

\* C6: when Init of the plugin at position p fails with anything other than
\* PluginUnavailable, the call propagates an error naming that plugin and
\* Init is called for no plugin at a later position.
C6_FatalNamesPluginAndStops ==
    /\ \A p \in PluginIds :
          calls[p] = "fatal" =>
              /\ pc = "idle"
              /\ error = decoder_plugins[p].name
              /\ \A q \in PluginIds : q > p => calls[q] = "none"
    /\ error # "" => \E p \in PluginIds : calls[p] = "fatal"

\* lazyusf initialized, lazygsf failed: the error names lazygsf and upse was
\* never reached
C6_Witness ==
    /\ InitAborted
    /\ calls = <<"true", "fatal", "none">>
    /\ error = "lazygsf"

\* C7: a PluginUnavailable from Init does not fail the call and does not set
\* the plugin's flag; the loop goes on, and calls Init for every later plugin
\* that is not disabled by configuration (as long as none of them fails).
C7_UnavailableStep ==
    (pc = "init" /\ calls'[i] = "unavailable") =>
        /\ error' = ""
        /\ decoder_plugins_enabled'[i] = decoder_plugins_enabled[i]
        /\ i' = i + 1
        /\ pc' = IF i < num_decoder_plugins THEN "init" ELSE "idle"

C7_LaterPluginsReached ==
    \A p, q \in PluginIds :
        (calls[p] = "unavailable" /\ q > p) =>
            /\ calls[q] = "none" =>
                  \/ pc = "init" /\ i <= q
                  \/ \E r \in PluginIds : p < r /\ r < q /\ calls[r] = "fatal"
            /\ calls[q] = "skipped" => DisabledBy(config, q)
            /\ calls[q] \in {"true", "false", "unavailable", "fatal"} =>
                  ~DisabledBy(config, q)

C8_RebuiltAlsoOnAbort ==
    (pc = "idle" /\ last = "init") =>
        decoder_codec_priorities = ExpectedTable(config, decoder_plugins_enabled)

\* C8 amended: the table is rebuilt from the configuration of the call when
\* every plugin has been processed; when the call aborts on a fatal Init
\* failure the table is not rebuilt and stays as it was before the call.
C8_RebuiltOnlyOnCompletion ==
    [][(pc = "init" /\ pc' = "idle") =>
          IF error' = ""
          THEN /\ decoder_codec_priorities'
                    = ExpectedTable(config, decoder_plugins_enabled')
               /\ built'.config = config
          ELSE /\ decoder_codec_priorities' = decoder_codec_priorities
               /\ built' = built]_vars

\* an aborted call whose configuration would have built another table than
\* the one left over from the earlier call
C8_Witness ==
    /\ InitAborted
    /\ built.config # config
    /\ decoder_codec_priorities # EmptyTable
    /\ decoder_codec_priorities # ExpectedTable(config, decoder_plugins_enabled)

\* C9: after decoder_plugin_deinit_all no plugin is enabled, so
\* decoder_plugins_supports_suffix is false for every suffix and
\* decoder_plugins_for_suffix returns no plugin, until the next init.
C9_DeinitDisablesAll ==
    (pc = "idle" /\ last = "deinit") =>
        /\ EnabledSet = {}
        /\ result.op = "supports_suffix" => ~result.ret
        /\ result.op = "for_suffix" => result.ret = <<>>

\* C10: the number of Finish calls made on a plugin never exceeds the number
\* of its Init calls that returned true.
C10_FinishAtMostInitTrue ==
    \A p \in PluginIds : nFinish[p] <= nInitTrue[p]

\* the position of p in seq, 0 when it does not occur
Pos(seq, p) ==
    IF Contains(seq, p) THEN CHOOSE k \in 1..Len(seq) : seq[k] = p ELSE 0

\* C11 as stated: decoder_plugin_deinit_all calls Finish on every plugin that
\* initialized successfully, in the reverse of the order in which
\* decoder_plugin_init_all initialized them (the loop initializes in
\* ascending registry position).
C11_FinishInReverseInitOrder ==
    (pc = "idle" /\ last = "deinit") =>
        /\ \A p \in PluginIds : calls[p] = "true" => Contains(finished, p)
        /\ \A p, q \in PluginIds :
              (calls[p] = "true" /\ calls[q] = "true" /\ p < q) =>
                  Pos(finished, q) < Pos(finished, p)

\* C11 amended: decoder_plugin_deinit_all calls Finish once on every plugin
\* whose enabled flag is set, in static registry order; plugins initialized
\* by the same decoder_plugin_init_all call are finished in the order in
\* which they were initialized, not in the reverse.
C11_FinishInRegistryOrder ==
    (pc = "idle" /\ last = "deinit") =>
        /\ finished = RegistryOrder(EnabledSet)
        /\ \A p, q \in PluginIds :
              (calls[p] = "true" /\ calls[q] = "true" /\ p < q) =>
                  /\ Pos(finished, p) > 0
                  /\ Pos(finished, p) < Pos(finished, q)

\* lazyusf then lazygsf were initialized, upse was not; the deinit finished
\* lazyusf first
C11_Witness ==
    /\ pc = "idle"
    /\ last = "deinit"
    /\ calls = <<"true", "true", "false">>
    /\ finished = <<1, 2>>

\* where calls are counted: plugin p was enabled when the current / last
\* decoder_plugin_init_all call was entered (its Init had returned true in
\* an earlier call)
EnabledAtEntry(p) == nInitTrue[p] > (IF calls[p] = "true" THEN 1 ELSE 0)

\* C12: when no plugin was enabled at the entry of decoder_plugin_init_all
\* and the call has completed, a plugin is enabled if and only if its block
\* does not set enabled=false and its Init returned true; Init is never
\* called for a plugin whose block sets enabled=false.
C12_EnabledIffInitTrue ==
    /\ (InitCompleted /\ \A p \in PluginIds : ~EnabledAtEntry(p)) =>
          \A p \in PluginIds :
              decoder_plugins_enabled[p]
                  <=> (~DisabledBy(config, p) /\ calls[p] = "true")
    /\ \A p \in PluginIds :
          DisabledBy(config, p) => calls[p] \in {"none", "skipped"}

\* a second call entered with no plugin enabled: lazyusf returned true,
\* lazygsf false, upse was skipped as enabled=false
C12_Witness ==
    /\ InitCompleted
    /\ ninit = 2
    /\ \A p \in PluginIds : ~EnabledAtEntry(p)
    /\ config = ConfigDisabled
    /\ calls = <<"true", "false", "skipped">>
    /\ decoder_plugins_enabled = <<TRUE, FALSE, FALSE>>

\* C13 as stated: when decoder_plugin_init_all has skipped a plugin because its block
\* sets enabled=false, that block is marked as used (SetUsed) once the loop
\* has passed the plugin.
C13_SkippedBlockMarkedUsed ==
    \A p \in PluginIds :
        calls[p] = "skipped" =>
            FindBlock(config, decoder_plugins[p].name) \in used

\* C13 amended: the plugin loop marks as used exactly the blocks FindBlock
\* returned for the plugins whose Init it called; the block of a plugin
\* skipped as enabled=false is not marked by the loop.
C13_UsedIffInitCalled ==
    /\ \A p \in PluginIds :
          LET b == FindBlock(config, decoder_plugins[p].name) IN
          b # 0 => (b \in used
                      <=> calls[p] \in {"true", "false", "unavailable", "fatal"})
    /\ \A b \in used :
          \E p \in PluginIds : b = FindBlock(config, decoder_plugins[p].name)

\* lazyusf was skipped as enabled=false and Init of lazygsf was called: the
\* block of lazygsf is marked, the block of lazyusf is not
C13_Witness ==
    /\ InitCompleted
    /\ config = ConfigBlank
    /\ calls[1] = "skipped"
    /\ calls[2] = "true"
    /\ used = {2}

\* block b names a plugin that decoder_plugin_from_name does not find
Unresolved(b, en) ==
    HasBlockValue(b, "plugin") /\ decoder_plugin_from_name(b.plugin, en) = 0

\* cfg without its unresolved blocks
WithoutUnresolved(cfg, en) ==
    LET Keep(b) == ~Unresolved(b, en)
    IN  SelectSeq(cfg, Keep)

\* C14: a block whose plugin name decoder_plugin_from_name does not find is
\* ignored by the table build: one warning is logged per such block, no
\* entry of the table comes from such a block, and the table is the one
\* built from the configuration without these blocks.
C14_UnresolvedBlockIgnored ==
    InitCompleted =>
        LET cfg == built.config
            en == built.enabled
        IN  /\ \A b \in Range(cfg) :
                  Unresolved(b, en) =>
                      Cardinality({k \in 1..Len(log) :
                                     log[k] = [level |-> "warning",
                                               plugin |-> b.plugin]})
                      = Cardinality({k \in 1..Len(cfg) :
                                       /\ HasBlockValue(cfg[k], "plugin")
                                       /\ cfg[k].plugin = b.plugin})
            /\ Cardinality({k \in 1..Len(log) : log[k].level = "warning"})
                   = Cardinality({k \in 1..Len(cfg) : Unresolved(cfg[k], en)})
            /\ \A t \in DOMAIN decoder_codec_priorities :
                  \A p \in Range(decoder_codec_priorities[t]) :
                      \E k \in DeclBlocks(cfg, p, t) : ~Unresolved(cfg[k], en)
            /\ decoder_codec_priorities
                   = BuildDecoderCodecPriorities(WithoutUnresolved(cfg, en),
                                                 en, <<>>).table
            /\ decoder_codec_priorities
                   = ExpectedTable(WithoutUnresolved(cfg, en), en)

\* the block naming "nosuch" declared psf: one warning, and psf -> [lazygsf]
\* as declared by the blocks of lazygsf alone
C14_Witness ==
    /\ InitCompleted
    /\ config = ConfigUnknown
    /\ decoder_plugins_enabled[2]
    /\ log = << [level |-> "warning", plugin |-> "nosuch"] >>
    /\ DOMAIN decoder_codec_priorities = {psf}
    /\ decoder_codec_priorities[psf] = <<2>>

\* C15: the table build is a full replace: the table is always the one a
\* build of the last build's configuration yields from the empty table,
\* whatever the table was before, and has no token that configuration does
\* not declare.
\* After a completed decoder_plugin_init_all whose configuration declares no
\* codec token the table is empty, and decoder_plugins_for_suffix returns
\* the enabled plugins in static registry order for every suffix.
C15_RebuildReplacesTable ==
    /\ decoder_codec_priorities
           = BuildFrom(built.config, 1, [table |-> EmptyTable, log |-> <<>>],
                       built.enabled).table
    /\ \A t \in DOMAIN decoder_codec_priorities :
          t \in AllTokens(built.config)
    /\ (InitCompleted /\ AllTokens(config) = {}) =>
          /\ decoder_codec_priorities = EmptyTable
          /\ result.op = "for_suffix" =>
                result.ret = RegistryOrder(EnabledSet)

\* the table held gsf -> [upse, lazyusf] before the call with the empty
\* configuration; it is empty now and "gsf" resolves in registry order
C15_Witness ==
    /\ InitCompleted
    /\ config = ConfigEmpty
    /\ gsf \in DOMAIN built.before
    /\ built.before[gsf] = <<3, 1>>
    /\ decoder_codec_priorities = EmptyTable
    /\ result.op = "for_suffix"
    /\ result.arg = gsf
    /\ result.ret = <<1, 2, 3>>

\* the codecs value of the one block of config, nullptr when it has none
CodecsValue == GetBlockValue(config[1], "codecs", nullptr)

\* the maximal runs <<a, b>> of characters of s that are neither comma nor
\* whitespace
Runs(s) ==
    {r \in (1..Len(s)) \X (1..Len(s)) :
        /\ r[1] <= r[2]
        /\ \A j \in r[1]..r[2] : s[j] # "," /\ s[j] \notin {" ", "\t", "\n", "\r"}
        /\ r[1] = 1 \/ s[r[1] - 1] \in {",", " ", "\t", "\n", "\r"}
        /\ r[2] = Len(s) \/ s[r[2] + 1] \in {",", " ", "\t", "\n", "\r"}}

\* the runs of s in input order, each lower-cased
RunTokens(s) ==
    [n \in 1..Cardinality(Runs(s)) |->
        LET r == CHOOSE q \in Runs(s) :
                     Cardinality({o \in Runs(s) : o[1] < q[1]}) = n - 1
        IN  [j \in 1..(r[2] - r[1] + 1) |-> ToLowerASCII(s[r[1] + j - 1])]]

\* C16 as stated: the tokens are lower-cased, in first-seen order, and
\* tokens identical after case folding are collapsed to one:
\* ParseCodecList("flac, FLAC ,,mp3") is ["flac", "mp3"].
C16_TokensCollapsed ==
    result.op = "parse" =>
        /\ NoDuplicates(result.ret)
        /\ result.arg = CodecsFlac => result.ret = <<flac, mp3>>

\* C16 amended: the tokens are lower-cased, in input order, one per run,
\* and a token that recurs is returned again:
\* ParseCodecList("flac, FLAC ,,mp3") is ["flac", "flac", "mp3"].  The
\* repetition is dropped only by the table build, which appends the plugin
\* of the block once per token.
C16_TokensNotCollapsed ==
    /\ result.op = "parse" =>
          /\ result.arg # nullptr => Len(result.ret) = Cardinality(Runs(result.arg))
          /\ result.arg # nullptr =>
                \A k \in 1..Len(result.ret) : result.ret[k] = RunTokens(result.arg)[k]
          /\ result.arg = CodecsFlac => result.ret = <<flac, flac, mp3>>
    /\ (InitCompleted /\ CodecsValue # nullptr) =>
          \A t \in Range(RunTokens(CodecsValue)) :
              /\ t \in DOMAIN decoder_codec_priorities
              /\ decoder_codec_priorities[t] = <<1>>

\* the parser was applied to "flac, FLAC ,,mp3" and returned flac twice
C16_Witness ==
    /\ result.op = "parse"
    /\ result.arg = CodecsFlac
    /\ result.ret = <<flac, flac, mp3>>
    /\ InitCompleted
    /\ DOMAIN decoder_codec_priorities = {flac, mp3}

\* s is not null and has no character other than commas and whitespace
\* (the empty string included)
DelimitersOnly(s) ==
    s # nullptr /\ \A j \in 1..Len(s) : s[j] \in {",", " ", "\t", "\n", "\r"}

\* C17: ParseCodecList returns one token per maximal run of characters that
\* are neither comma nor whitespace, in input order, each the run
\* lower-cased; no token is empty or has a comma, a whitespace or an
\* upper-case letter; a null, empty or delimiter-only value yields no token,
\* and a block with such a value adds nothing to the table.
C17_TokensAreLowerCasedRuns ==
    /\ result.op = "parse" =>
          /\ result.arg # nullptr => result.ret = RunTokens(result.arg)
          /\ \A k \in 1..Len(result.ret) :
                /\ result.ret[k] # <<>>
                /\ \A j \in 1..Len(result.ret[k]) :
                      result.ret[k][j] \notin {",", " ", "\t", "\n", "\r"}
                                                \cup Range(UpperASCII)
          /\ (result.arg = nullptr \/ DelimitersOnly(result.arg)) =>
                result.ret = <<>>
    /\ (InitCompleted /\ (CodecsValue = nullptr \/ DelimitersOnly(CodecsValue))) =>
          decoder_codec_priorities = EmptyTable

\* "B,\ta" was parsed into b, a, and the table built from the block has
\* these two tokens
C17_Witness ==
    /\ result.op = "parse"
    /\ result.arg = <<"B", ",", "\t", "a">>
    /\ result.ret = << <<"b">>, <<"a">> >>
    /\ InitCompleted
    /\ DOMAIN decoder_codec_priorities = {<<"a">>, <<"b">>}

\* C18: after every table build each priority list is non-empty and
\* duplicate-free and holds the plugins in the order of their first
\* declaration for the token, the decoder blocks read in file order;
\* declaring a (token, plugin) pair again changes nothing.
C18_ListsInFirstDeclarationOrder ==
    [][(pc = "init" /\ pc' = "idle" /\ error' = "") =>
          /\ \A t \in DOMAIN decoder_codec_priorities' :
                LET list == decoder_codec_priorities'[t] IN
                /\ list # <<>>
                /\ NoDuplicates(list)
                /\ \A k \in 1..Len(list) : DeclBlocks(config, list[k], t) # {}
                /\ \A a, b \in 1..Len(list) :
                      a < b => Min(DeclBlocks(config, list[a], t))
                                  < Min(DeclBlocks(config, list[b], t))
          /\ decoder_codec_priorities'
                 = ExpectedTable(config, decoder_plugins_enabled')]_vars

\* upse declared gsf first, lazyusf declared it twice in one value, and upse
\* declared it again in a later block: the list is [upse, lazyusf]
C18_Witness ==
    /\ InitCompleted
    /\ config = ConfigOverride
    /\ DeclBlocks(config, 3, gsf) = {1, 3}
    /\ DeclBlocks(config, 1, gsf) = {2}
    /\ ParseCodecList(config[2].codecs) = <<gsf, gsf, psf>>
    /\ gsf \in DOMAIN decoder_codec_priorities
    /\ decoder_codec_priorities[gsf] = <<3, 1>>

\* plugin p declares suffix s: s is, ASCII case ignored, one of the
\* (lower-case) suffixes of its descriptor
Declares(p, s) == LowerCopy(s) \in Range(decoder_plugins[p].suffixes)

\* C19: decoder_plugins_supports_suffix(s) is true if and only if some
\* currently enabled plugin declares s; a priority list for s naming plugins
\* that do not declare s does not make it true.
C19_SupportsIffEnabledDeclares ==
    result.op = "supports_suffix" =>
        /\ result.ret <=> \E p \in EnabledSet : Declares(p, result.arg)
        /\ (/\ OverrideList(result.arg) # <<>>
            /\ \A p \in EnabledSet : ~Declares(p, result.arg)) => ~result.ret

\* psf has the priority list [lazygsf], lazygsf is enabled and does not
\* declare psf, upse is not enabled: "psf" is not supported
C19_Witness ==
    /\ InitCompleted
    /\ result.op = "supports_suffix"
    /\ result.arg = psf
    /\ OverrideList(psf) = <<2>>
    /\ decoder_plugins_enabled[2]
    /\ ~decoder_plugins_enabled[3]
    /\ result.ret = FALSE

\* C20: decoder_plugins_for_suffix("") returns every enabled plugin in
\* static registry order, whatever the priority table holds.
C20_EmptySuffixRegistryOrder ==
    (result.op = "for_suffix" /\ result.arg = <<>>) =>
        /\ result.ret = RegistryOrder(EnabledSet)
        /\ \A a, b \in 1..Len(result.ret) : a < b => result.ret[a] < result.ret[b]
        /\ Range(result.ret) = EnabledSet

\* the table orders upse before lazyusf for gsf; the empty suffix still
\* resolves to lazyusf, lazygsf, upse
C20_Witness ==
    /\ result.op = "for_suffix"
    /\ result.arg = <<>>
    /\ gsf \in DOMAIN decoder_codec_priorities
    /\ decoder_codec_priorities[gsf] = <<3, 1>>
    /\ result.ret = <<1, 2, 3>>

\* the compiled-in plugins called name (exact, case-sensitive comparison)
Named(name) == {p \in PluginIds : decoder_plugins[p].name = name}

\* C21 as stated: decoder_plugin_from_name(name) returns the compiled-in
\* plugin whose name is exactly name, enabled or not, and null exactly when
\* no compiled-in plugin has that name.
C21_FromNameWhetherEnabledOrNot ==
    result.op = "from_name" =>
        /\ result.ret = 0 <=> Named(result.arg) = {}
        /\ result.ret # 0 => result.ret \in Named(result.arg)

\* C21 amended: decoder_plugin_from_name(name) returns the enabled plugin
\* whose name is exactly name (case-sensitive), and null when no enabled
\* plugin has that name: for an unknown name and for the name of a
\* compiled-in plugin that is not enabled.
C21_FromNameAmongEnabled ==
    result.op = "from_name" =>
        /\ result.ret = 0 <=> Named(result.arg) \cap EnabledSet = {}
        /\ result.ret # 0 => result.ret \in Named(result.arg) \cap EnabledSet
        /\ Cardinality(Named(result.arg)) <= 1

\* upse is compiled in but not enabled while lazyusf is: the lookup of
\* "upse" returned null
C21_Witness ==
    /\ InitCompleted
    /\ result.op = "from_name"
    /\ result.arg = "upse"
    /\ Named("upse") = {3}
    /\ decoder_plugins_enabled[1]
    /\ ~decoder_plugins_enabled[3]
    /\ result.ret = 0

\* what the lookup recorded in r returns in the state with the flags en and
\* the table tb
LookupValue(r, en, tb) ==
    IF r.op = "for_suffix" THEN decoder_plugins_for_suffix(r.arg, en, tb)
    ELSE IF r.op = "supports_suffix" THEN decoder_plugins_supports_suffix(r.arg, en)
    ELSE decoder_plugin_from_name(r.arg, en)

BuildLogOfStep ==
    IF i < num_decoder_plugins THEN <<>>
    ELSE BuildDecoderCodecPriorities(config, decoder_plugins_enabled', <<>>).log

\* C27 as stated: a plugin whose Init returns false produces no log entry,
\* and a plugin whose Init raises PluginUnavailable produces exactly one, at
\* warning level.
C27_UnavailableLoggedAsWarning ==
    [][(pc = "init" /\ calls'[i] \in {"false", "unavailable"}) =>
          log' = log
                 \o (IF calls'[i] = "unavailable"
                     THEN << [level |-> "warning",
                              plugin |-> decoder_plugins[i].name] >>
                     ELSE <<>>)
                 \o BuildLogOfStep]_vars

\* C27 amended: a plugin whose Init returns false produces no log entry,
\* and a plugin whose Init raises PluginUnavailable produces exactly one, at
\* error level.
C27_UnavailableLoggedAsError ==
    [][(pc = "init" /\ calls'[i] \in {"false", "unavailable"}) =>
          log' = log
                 \o (IF calls'[i] = "unavailable"
                     THEN << [level |-> "error",
                              plugin |-> decoder_plugins[i].name] >>
                     ELSE <<>>)
                 \o BuildLogOfStep]_vars

\* lazyusf declined and lazygsf was unavailable: the log of the call holds
\* the one entry of lazygsf
C27_Witness ==
    /\ InitCompleted
    /\ config = ConfigEmpty
    /\ calls = <<"false", "unavailable", "true">>
    /\ log = << [level |-> "error", plugin |-> "lazygsf"] >>

\* C29: in every state and for every suffix, the plugins returned by
\* decoder_plugins_for_suffix are exactly the enabled plugins, whether they
\* declare the suffix or not: a priority list names enabled plugins only,
\* so it reorders the result and neither adds nor removes a plugin; the
\* result is empty exactly when no plugin is enabled.
C29_ResultIsTheEnabledSet ==
    /\ \A t \in DOMAIN decoder_codec_priorities :
          Range(decoder_codec_priorities[t]) \subseteq EnabledSet
    /\ result.op = "for_suffix" =>
          /\ Range(result.ret) = EnabledSet
          /\ Len(result.ret) = Cardinality(EnabledSet)
          /\ result.ret = <<>> <=> EnabledSet = {}

\* gsf has the priority list [upse, lazyusf], neither of which declares gsf;
\* the result is that list followed by lazygsf
C29_Witness ==
    /\ result.op = "for_suffix"
    /\ result.arg = gsf
    /\ OverrideList(gsf) = <<3, 1>>
    /\ ~Declares(3, gsf)
    /\ ~Declares(1, gsf)
    /\ EnabledSet = {1, 2, 3}
    /\ result.ret = <<3, 1, 2>>

\* C30: every key of the priority table is lower-case;
\* decoder_plugins_for_suffix(s) is decoder_plugins_for_suffix of the
\* lower-cased s; the list declared for token t is used for the suffixes
\* whose lower-cased form is t, and every suffix without such a list gets the
\* enabled plugins in static registry order.
C30_CaseInsensitiveAndLocal ==
    /\ \A t \in DOMAIN decoder_codec_priorities :
          \A j \in 1..Len(t) : t[j] \notin Range(UpperASCII)
    /\ result.op = "for_suffix" =>
          /\ result.ret = decoder_plugins_for_suffix(LowerCopy(result.arg),
                                                     decoder_plugins_enabled,
                                                     decoder_codec_priorities)
          /\ LowerCopy(result.arg) \notin DOMAIN decoder_codec_priorities =>
                result.ret = RegistryOrder(EnabledSet)
          /\ LowerCopy(result.arg) \in DOMAIN decoder_codec_priorities =>
                SubSeq(result.ret, 1,
                       Len(decoder_codec_priorities[LowerCopy(result.arg)]))
                    = decoder_codec_priorities[LowerCopy(result.arg)]

\* the value "gsf, GSF ,,psf" declared gsf for lazyusf after upse; the
\* lookup of "GsF" uses the list of gsf
C30_Witness ==
    /\ result.op = "for_suffix"
    /\ result.arg = <<"G", "s", "F">>
    /\ built.config = ConfigOverride
    /\ DOMAIN decoder_codec_priorities = {gsf, psf}
    /\ decoder_codec_priorities[gsf] = <<3, 1>>
    /\ EnabledSet = {1, 2, 3}
    /\ result.ret = <<3, 1, 2>>

\* C23: in each decode loop, a SEEK returned by SubmitAudio is answered by
\* exactly one CommandFinished before the next SubmitAudio and before Decode
\* returns, on every path.
C23_SeekAnsweredOnce ==
    /\ client.nFinished <= 1
    /\ ~client.lost
    /\ dpc \in {"loop", "returned"} => ~client.pending

\* C24: once SubmitAudio has returned STOP, the decoder calls SubmitAudio no
\* more and Decode returns.
C24_StopEndsDecode ==
    /\ ~client.submitAfterStop
    /\ client.stop => dpc \in {"submitted", "returned"}
    /\ client.stop /\ dpc = "submitted" => cmd = "STOP"

\* lazygsf has submitted three buffers of a track without length; the third
\* SubmitAudio returned STOP and Decode has returned
C24_Witness ==
    /\ dplugin = "lazygsf"
    /\ ~HasLength(track)
    /\ dpc = "returned"
    /\ exit = "STOP"
    /\ client.stop
    /\ client.nSubmit = 3

\* the ways Decode leaves before the file is loaded and started
LoadFailures ==
    {"out of memory", "load failed", "open failed", "probe error",
     "invalid sample rate", "error loading file", "error probing file",
     "allocation failed", "invalid PSF file", "PSF start failed",
     "PSF2 filesystem init failed", "invalid PSF2 file", "PSF2 start failed",
     "unsupported PSF version"}

\* C25: on every exit path of aopsf_file_decode after the emulator state was
\* allocated, the state buffer is freed exactly once, the PSF2 filesystem is
\* deleted exactly once if and only if it was created, and the emulator is
\* stopped if and only if its start had succeeded; nothing is released
\* before Decode returns.
C25_AopsfReleasesWhatItHolds ==
    dplugin = "aopsf" =>
        /\ psx.nFsCreate <= 1
        /\ psx.nStart <= 1
        /\ dpc = "returned" /\ psx.allocated =>
              /\ psx.nFree = 1
              /\ psx.nFsDelete = psx.nFsCreate
              /\ psx.nStop = psx.nStart
        /\ dpc # "returned" \/ ~psx.allocated =>
              /\ psx.nFree = 0
              /\ psx.nFsDelete = 0
              /\ psx.nStop = 0

\* a PSF2 file whose filesystem was created and loaded, and whose
\* psf2_start failed: the filesystem is deleted, the buffer freed, no stop
C25_Witness ==
    /\ dplugin = "aopsf"
    /\ track.version = 2
    /\ dpc = "returned"
    /\ exit = "PSF2 start failed"
    /\ psx = [allocated |-> TRUE, started |-> FALSE, psf2fs |-> TRUE,
              nFree |-> 1, nFsCreate |-> 1, nFsDelete |-> 1,
              nStart |-> 0, nStop |-> 0]

C28_LibraryInitOnce ==
    \A plugin \in OncePlugins :
        /\ nLibInit[plugin] <= 1
        /\ nPluginInit[plugin] > 0 => nLibInit[plugin] = 1
        /\ (\E th \in Threads : threads[th].plugin = plugin) =>
              nLibInit[plugin] = 1

\* two init calls have reached gsf_plugin_init, and three threads are past
\* the entry of Decode, two of them in lazygsf
C28_Witness ==
    /\ nPluginInit["lazygsf"] = 2
    /\ nPluginInit["upse"] = 1
    /\ threads[1] = [plugin |-> "lazygsf", at |-> "body", seen |-> TRUE]
    /\ threads[2] = [plugin |-> "lazygsf", at |-> "body", seen |-> TRUE]
    /\ threads[3] = [plugin |-> "upse", at |-> "body", seen |-> TRUE]
    /\ nLibInit = [p \in OncePlugins |-> 1]

\* C31: a fatal abort of decoder_plugin_init_all does not roll back: every
\* plugin whose Init returned true earlier in that call stays enabled, the
\* aborted call calls Finish on none of them, and a following
\* decoder_plugin_deinit_all calls Finish on each of them.
C31_NoRollbackOnAbort ==
    [][/\ (error' # "" /\ last' = "init") =>
             /\ nFinish' = nFinish
             /\ finished' = <<>>
             /\ \A p \in PluginIds :
                    calls'[p] = "true" => decoder_plugins_enabled'[p]
       /\ (error # "" /\ last = "init" /\ last' = "deinit") =>
             \A p \in PluginIds :
                calls[p] = "true" =>
                    /\ Contains(finished', p)
                    /\ nFinish'[p] = nFinish[p] + 1]_vars

\* lazyusf and lazygsf initialized, upse failed, and the deinit that
\* followed called Finish on lazyusf and lazygsf
C31_Witness ==
    /\ last = "deinit"
    /\ error = "upse"
    /\ calls = <<"true", "true", "fatal">>
    /\ finished = <<1, 2>>
    /\ nFinish = <<1, 1, 0>>
    /\ decoder_plugins_enabled = <<TRUE, TRUE, FALSE>>

\* the sample lazygsf / lazyusf submitted in frame f of the last buffer, for
\* the sample s the library rendered there
SubmittedSample(s, f) ==
    IF ~rendered.faded THEN s
    ELSE IF dplugin = "lazygsf"
    THEN GsfApplyFade(s, f, rendered.fade_start, rendered.fade_remaining,
                      FadeTotal(dplugin, track))
    ELSE UsfApplyFade(s, f, rendered.frames, rendered.fade_start,
                      rendered.fade_remaining, FadeTotal(dplugin, track))

\* the track position of frame f of the last buffer when no seek came before
TrackPosition(f) == (client.nSubmit - 1) * rendered.frames + f

\* sample s scaled by max(F - k, 0) / F
ScaledTail(s, k, F) == TruncDiv(s * MaxOf(F - k, 0), F)

\* C32: in gsf_file_decode, for a track of known length L and fade F and no
\* seek, every frame at track position < L is submitted unmodified, and the
\* frame at position L + k is scaled by max(F - k, 0) / F.
C32_GsfFadeTouchesOnlyTail ==
    (/\ dplugin = "lazygsf"
     /\ dpc = "submitted"
     /\ HasLength(track)
     /\ ~client.sought) =>
        LET L == LengthFrames(dplugin, track)
            F == FadeTotal(dplugin, track)
        IN  \A f \in 0..(rendered.frames - 1), s \in Samples :
               IF TrackPosition(f) < L
               THEN SubmittedSample(s, f) = s
               ELSE F > 0 =>
                      SubmittedSample(s, f) = ScaledTail(s, TrackPosition(f) - L, F)

\* C33: in lazyusf_file_decode, for a track of known length L and fade F and
\* no seek, every frame at track position < L is submitted unmodified, and
\* the frame at position L + k is scaled by max(F - k, 0) / F, which is
\* silence once k >= F or when F = 0.
C33_UsfFadeTouchesOnlyTail ==
    (/\ dplugin = "lazyusf"
     /\ dpc = "submitted"
     /\ HasLength(track)
     /\ ~client.sought) =>
        LET L == LengthFrames(dplugin, track)
            F == FadeTotal(dplugin, track)
        IN  \A f \in 0..(rendered.frames - 1), s \in Samples :
               IF TrackPosition(f) < L
               THEN SubmittedSample(s, f) = s
               ELSE SubmittedSample(s, f) =
                       IF F > 0 THEN ScaledTail(s, TrackPosition(f) - L, F) ELSE 0

\* a track of 960 frames with a fade of 1920 frames: the first buffer holds
\* the whole body and the first 64 frames of the fade; frame 959 is kept,
\* frame 1000 is scaled by 1880 / 1920
C33_Witness ==
    /\ dplugin = "lazyusf"
    /\ dpc = "submitted"
    /\ LengthFrames(dplugin, track) = 960
    /\ FadeTotal(dplugin, track) = 1920
    /\ client.nSubmit = 1
    /\ ~client.sought
    /\ rendered = [frames |-> 1024, faded |-> TRUE, fade_start |-> 960,
                   fade_remaining |-> 1920, skipped |-> 0]
    /\ SubmittedSample(32767, 959) = 32767
    /\ SubmittedSample(32767, 1000) = 32084

\* the buffer size of lazygsf / lazyusf
BufferFrames(plugin) ==
    IF plugin = "lazygsf" THEN GSF_BUFFER_FRAMES ELSE LAZYUSF_BUFFER_FRAMES

\* ceil((L + F) / B)
BuffersOf(plugin, t) ==
    (LengthFrames(plugin, t) + FadeTotal(plugin, t) + BufferFrames(plugin) - 1)
        \div BufferFrames(plugin)

\* C34: for a track of known length L > 0 and fade F, when the client
\* returns neither SEEK nor STOP and no render fails, the loops of lazygsf and
\* lazyusf go on up to the buffer number ceil((L + F) / B) and return right
\* after it; a render step never raises song_remaining or fade_remaining, a
\* step after SubmitAudio changes them only for a SEEK, and fade_remaining
\* stays within 0..F.
C34_FadeLoopTerminates ==
    [][(/\ dplugin' \in {"lazygsf", "lazyusf"}
        /\ HasLength(track')
        /\ LengthFrames(dplugin', track') > 0) =>
           LET N == BuffersOf(dplugin', track')
               quiet == ~client.sought /\ ~client.stop
               quiet2 == ~client'.sought /\ ~client'.stop
           IN  /\ fade_remaining' >= 0
               /\ fade_remaining' <= FadeTotal(dplugin', track')
               /\ (dpc = "loop" /\ dpc' = "submitted") =>
                     /\ song_remaining' <= song_remaining
                     /\ fade_remaining' <= fade_remaining
                     /\ rendered'.frames = BufferFrames(dplugin')
               /\ (dpc = "submitted" /\ cmd # "SEEK") =>
                     /\ song_remaining' = song_remaining
                     /\ fade_remaining' = fade_remaining
               /\ (quiet2 /\ dpc' = "submitted") => client'.nSubmit <= N
               /\ (quiet /\ dpc = "submitted") =>
                     IF client.nSubmit = N
                     THEN dpc' = "returned" /\ exit' = "end of track"
                     ELSE dpc' = "loop"]_vars

\* lazyusf, a track of 2048 frames with a fade of 1024 frames: three buffers
\* of 1024 frames were submitted and Decode has returned
C34_Witness ==
    /\ dplugin = "lazyusf"
    /\ LengthFrames(dplugin, track) = 2048
    /\ FadeTotal(dplugin, track) = 1024
    /\ dpc = "returned"
    /\ exit = "end of track"
    /\ ~client.sought
    /\ ~client.stop
    /\ client.nSubmit = 3
    /\ song_remaining = 0
    /\ fade_remaining = 0

\* C35: in the loops of lazygsf and lazyusf, after a successful seek to
\* frame position t in a track of known length L and fade F, t frames were
\* skipped from the restarted stream, song_remaining = max(L - t, 0), and
\* fade_remaining = F when t <= L, max(F - (t - L), 0) when t > L, whatever
\* seeks came before.
C35_CountersAfterSeek ==
    (/\ dplugin \in {"lazygsf", "lazyusf"}
     /\ HasLength(track)
     /\ dpc = "loop"
     /\ cmd = "SEEK") =>
        LET L == LengthFrames(dplugin, track)
            F == FadeTotal(dplugin, track)
            t == ToFrames(seek_ms, SampleRate(dplugin, track))
        IN  /\ rendered.skipped = t
            /\ song_remaining = MaxOf(L - t, 0)
            /\ fade_remaining = IF t <= L THEN F ELSE MaxOf(F - (t - L), 0)
            /\ ~client.pending

\* lazygsf, a track of 1323 frames with a fade of 2646 frames: after three
\* buffers, each answered by SEEK, the last seek went to frame 1764, which
\* is 441 frames into the fade
C35_Witness ==
    /\ dplugin = "lazygsf"
    /\ LengthFrames(dplugin, track) = 1323
    /\ FadeTotal(dplugin, track) = 2646
    /\ dpc = "loop"
    /\ cmd = "SEEK"
    /\ seek_ms = 40
    /\ client.nSubmit = 3
    /\ rendered.skipped = 1764
    /\ song_remaining = 0
    /\ fade_remaining = 2205

\* C36: in aopsf_file_decode, for a track of known duration of N frames, no
\* submitted buffer extends past track position N, whatever seeks came
\* before; with no seek, no STOP and no render error every buffer but
\* possibly the last holds 1024 frames, the frames submitted sum to N, and
\* the loop then returns.
C36_AopsfStaysWithinTrack ==
    (dplugin = "aopsf" /\ HasLength(track)) =>
        LET N == LengthFrames(dplugin, track) IN
        /\ dpc = "submitted" =>
              /\ rendered.frames >= 1
              /\ rendered.frames <= AOPSF_BUFFER_FRAMES
              /\ frames_played - rendered.frames >= 0
              /\ frames_played <= N
        /\ (dpc = "submitted" /\ ~client.sought) =>
              /\ frames_played = MinOf(client.nSubmit * AOPSF_BUFFER_FRAMES, N)
              /\ rendered.frames = AOPSF_BUFFER_FRAMES \/ frames_played = N
        /\ (dpc = "loop" /\ ~client.sought) =>
              frames_played = MinOf(client.nSubmit * AOPSF_BUFFER_FRAMES, N)
        /\ (dpc = "returned" /\ exit = "end of track") =>
              /\ frames_played >= N
              /\ ~client.sought => frames_played = N

\* a PSF track of 30 ms and 60 ms of fade, 3969 frames: three buffers of
\* 1024 frames and a fourth of 897 were submitted, and Decode has returned
C36_Witness ==
    /\ dplugin = "aopsf"
    /\ track = [length_ms |-> 30, fade_ms |-> 60, version |-> 1]
    /\ LengthFrames(dplugin, track) = 3969
    /\ dpc = "returned"
    /\ exit = "end of track"
    /\ ~client.sought
    /\ ~client.stop
    /\ client.nSubmit = 4
    /\ rendered.frames = 897
    /\ frames_played = 3969

====
